---- MODULE Spec2Model ----
(***************************************************************************)
(* FatSecret proxy: the OAuth 1.0a request signing of the barcode lookup   *)
(* handlers, in the five revisions the repository holds:                   *)
(*   "barcode"  src/api/barcode.js        oauthEncode / buildParameterString*)
(*   "p000a"    src/unnamed/part_000:1    percentEncode / buildSignature    *)
(*   "p000b"    src/unnamed/part_000:165  makeSignature                     *)
(*   "p001"     src/unnamed/part_001      generateOAuthSignature            *)
(*   "p002"     src/unnamed/part_002      oauthEncode / buildSignature      *)
(* A JS string is a sequence of characters; a character is a one-character  *)
(* TLA+ string (or a token: "U+0060" the grave accent, "U+00E9" e-acute).   *)
(***************************************************************************)
EXTENDS Integers, Sequences, FiniteSets, TLC

VARIABLES
    call,       \* the arguments of a direct call of a signing routine
    result,     \* what that call returned (NoResult before the call)
    env,        \* process.env: the configured consumer key and secret
    now,        \* Date.now(), in milliseconds
    draws,      \* number of values drawn from the random source so far
    rateBuckets,\* barcode.js rateBuckets: ip -> { count, resetAt }
    pc,         \* handler invocation -> its position in the handler
    status,     \* handler invocation -> HTTP status answered (0: none yet)
    upstream,   \* handler invocation -> number of upstream calls it made
    sent,       \* handler invocation -> the FatSecret requests it issued, in
                \* order, while it runs (its locals are gone once it answered)
    handler,    \* the handler a process serves when requests arrive in sequence
    krogerRateBuckets,  \* kroger.js rateBuckets: ip -> { count, resetAt }
    windows,    \* per client address: when its current window began and how
                \* many of its GET requests were let through / answered 429
    kroger,     \* kroger.js: cachedToken, tokenExpiresAt, responseCache, the
                \* locals of the handler invocations, and what the last step did
    userApi,    \* /api/user: per invocation, the request, where the handler
                \* stands, what it was told and the requests it has issued
    stripeApi   \* the two Stripe handlers: the environment, the profile in
                \* Supabase, and the invocations of either handler

vars ==
    << call, result, env, now, draws, rateBuckets, pc, status, upstream, sent,
       handler, krogerRateBuckets, windows, kroger, userApi, stripeApi >>

signVars == << call, result >>
proxyVars == << env, now, draws, rateBuckets, pc, status, upstream, sent >>

\* the state of the FatSecret lookups apart from the clock and the limiter
lookupVars == << call, result, env, draws, pc, status, upstream, sent >>
\* the state of the request sequences the rate limiters are checked on
limiterVars == << handler, krogerRateBuckets, windows >>
\* everything outside the FatSecret signer and lookup handlers
restVars == << limiterVars, kroger, userApi, stripeApi >>

----------------------------------------------------------------------------
(* Characters and their code points.                                       *)

Ascii ==
    << " ", "!", "\"", "#", "$", "%", "&", "'", "(", ")", "*", "+", ",", "-", ".", "/",
       "0", "1", "2", "3", "4", "5", "6", "7", "8", "9", ":", ";", "<", "=", ">", "?",
       "@", "A", "B", "C", "D", "E", "F", "G", "H", "I", "J", "K", "L", "M", "N", "O",
       "P", "Q", "R", "S", "T", "U", "V", "W", "X", "Y", "Z", "[", "\\", "]", "^", "_",
       "U+0060", "a", "b", "c", "d", "e", "f", "g", "h", "i", "j", "k", "l", "m", "n", "o",
       "p", "q", "r", "s", "t", "u", "v", "w", "x", "y", "z", "{", "|", "}", "~" >>

AsciiChars == { Ascii[i] : i \in 1..Len(Ascii) }

EAcute == "U+00E9"
EAcuteUpper == "U+00C9"
Chars == AsciiChars \cup { EAcute, EAcuteUpper }

\* Note on style: a table over characters is merged with the empty function
\* (@@), and a sequence built as [ i \in 1..n |-> e ] is concatenated with
\* the empty sequence, where it is read more than once: either makes it an
\* explicit value whose entries are computed a single time.  For the same
\* reason a value the source keeps in a const and reads more than once is
\* handed on as the parameter of the operator that models the statements
\* after it, instead of being named with LET.

\* code point of a character (UTF-16 code unit; all characters here are BMP)
CodeTable ==
    [ c \in Chars |->
        CASE c = EAcute -> 233
          [] c = EAcuteUpper -> 201
          [] OTHER -> 31 + (CHOOSE i \in 1..Len(Ascii) : Ascii[i] = c) ] @@ << >>

Code(c) == CodeTable[c]

Digits == { "0", "1", "2", "3", "4", "5", "6", "7", "8", "9" }
Lower == { c \in AsciiChars : Code(c) >= 97 /\ Code(c) <= 122 }
Upper == { c \in AsciiChars : Code(c) >= 65 /\ Code(c) <= 90 }
AlphaNum == Digits \cup Lower \cup Upper

\* RFC 3986 unreserved characters
Unreserved == AlphaNum \cup { "-", ".", "_", "~" }

----------------------------------------------------------------------------
(* JavaScript values and strings.                                          *)

Str(s) == [t |-> "string", s |-> s]
Num(n) == [t |-> "number", n |-> n]
Bool(b) == [t |-> "boolean", b |-> b]
Undefined == [t |-> "undefined"]
Null == [t |-> "null"]
Obj == [t |-> "object"]

IsString(v) == v.t = "string"

RECURSIVE DecimalDigits(_)
DecimalDigits(n) ==
    IF n < 10 THEN << Ascii[17 + n] >>
    ELSE DecimalDigits(n \div 10) \o << Ascii[17 + (n % 10)] >>

\* JSToString of the language: String(v), template literals, and the implicit
\* conversion encodeURIComponent applies to its argument
JSToString(v) ==
    CASE v.t = "string" -> v.s
      [] v.t = "number" -> DecimalDigits(v.n)
      [] v.t = "boolean" -> IF v.b THEN << "t", "r", "u", "e" >> ELSE << "f", "a", "l", "s", "e" >>
      [] v.t = "undefined" -> << "u", "n", "d", "e", "f", "i", "n", "e", "d" >>
      [] v.t = "null" -> << "n", "u", "l", "l" >>
      [] v.t = "object" -> << "[", "o", "b", "j", "e", "c", "t", " ", "O", "b", "j", "e", "c", "t", "]" >>

\* !v : the falsy values among those modelled
Falsy(v) ==
    \/ v.t \in { "undefined", "null" }
    \/ v.t = "string" /\ v.s = << >>
    \/ v.t = "number" /\ v.n = 0
    \/ v.t = "boolean" /\ ~v.b

\* concatenation of the strings ss[lo..hi] (halving, to keep evaluation shallow)
RECURSIVE FlattenRange(_, _, _)
FlattenRange(ss, lo, hi) ==
    IF lo > hi THEN << >>
    ELSE IF lo = hi THEN ss[lo]
    ELSE FlattenRange(ss, lo, (lo + hi) \div 2) \o FlattenRange(ss, ((lo + hi) \div 2) + 1, hi)

Flatten(ss) == FlattenRange(ss, 1, Len(ss))

\* Array.prototype.join
RECURSIVE JoinFrom(_, _, _)
JoinFrom(ss, sep, i) ==
    IF i > Len(ss) THEN << >>
    ELSE IF i = Len(ss) THEN ss[i]
    ELSE ss[i] \o sep \o JoinFrom(ss, sep, i + 1)

Join(ss, sep) == JoinFrom(ss \o << >>, sep, 1)

\* the string s with each character c replaced by the string table[c]
ReplaceChars(s, table) == Flatten([ i \in 1..Len(s) |-> table[s[i]] ] \o << >>)

Contains(s, c) == \E i \in 1..Len(s) : s[i] = c

\* String.prototype.toUpperCase, on the characters modelled
UpperChar(c) ==
    IF c \in Lower THEN Ascii[Code(c) - 32 - 31]
    ELSE IF c = EAcute THEN EAcuteUpper
    ELSE c
UpperTable == [ c \in Chars |-> UpperChar(c) ] @@ << >>
toUpperCase(s) == [ i \in 1..Len(s) |-> UpperTable[s[i]] ] \o << >>

\* Number.prototype.toString(16)
HexLower == << "0", "1", "2", "3", "4", "5", "6", "7", "8", "9", "a", "b", "c", "d", "e", "f" >>
RECURSIVE toString16(_)
toString16(n) ==
    IF n < 16 THEN << HexLower[n + 1] >>
    ELSE toString16(n \div 16) \o << HexLower[(n % 16) + 1] >>

----------------------------------------------------------------------------
(* Percent-encoding.                                                       *)

\* the UTF-8 bytes of a code point below U+0800
Utf8(cp) ==
    IF cp < 128 THEN << cp >>
    ELSE << 192 + (cp \div 64), 128 + (cp % 64) >>

HexUpper == << "0", "1", "2", "3", "4", "5", "6", "7", "8", "9", "A", "B", "C", "D", "E", "F" >>
PctByte(b) == << "%", HexUpper[(b \div 16) + 1], HexUpper[(b % 16) + 1] >>
PctChar(c) == Flatten([ i \in 1..Len(Utf8(Code(c))) |-> PctByte(Utf8(Code(c))[i]) ])

\* encodeURIComponent leaves A-Z a-z 0-9 - _ . ! ~ * ' ( ) and escapes the
\* UTF-8 bytes of everything else as uppercase %XX
UriUnescaped == AlphaNum \cup { "-", "_", ".", "!", "~", "*", "'", "(", ")" }
UriTable == [ c \in Chars |-> IF c \in UriUnescaped THEN << c >> ELSE PctChar(c) ] @@ << >>
encodeURIComponent(v) == ReplaceChars(JSToString(v), UriTable)

\* URLSearchParams.prototype.toString: the application/x-www-form-urlencoded
\* serializer leaves A-Z a-z 0-9 * - . _ , writes a space as + and escapes
\* the UTF-8 bytes of everything else
FormUnescaped == AlphaNum \cup { "*", "-", ".", "_" }
FormTable ==
    [ c \in Chars |-> IF c \in FormUnescaped THEN << c >>
                      ELSE IF c = " " THEN << "+" >> ELSE PctChar(c) ] @@ << >>
formEncode(v) == ReplaceChars(JSToString(v), FormTable)

\* .replace(/[!*'()]/g, (c) => "%" + c.charCodeAt(0).toString(16).toUpperCase())
ReservedTable ==
    [ c \in Chars |-> IF c \in { "!", "*", "'", "(", ")" }
                      THEN << "%" >> \o toUpperCase(toString16(Code(c)))
                      ELSE << c >> ] @@ << >>

\* barcode.js oauthEncode
oauthEncode(str) == ReplaceChars(encodeURIComponent(Str(JSToString(str))), ReservedTable)

\* part_002 oauthEncode
oauthEncode_p002(str) == ReplaceChars(encodeURIComponent(str), ReservedTable)

\* part_000 percentEncode: .replace(/!/g, '%21') ... .replace(/\*/g, '%2A')
percentEncode_table ==
    [ c \in Chars |-> CASE c = "!" -> << "%", "2", "1" >>
                        [] c = "'" -> << "%", "2", "7" >>
                        [] c = "(" -> << "%", "2", "8" >>
                        [] c = ")" -> << "%", "2", "9" >>
                        [] c = "*" -> << "%", "2", "A" >>
                        [] OTHER -> << c >> ] @@ << >>
percentEncode(str) == ReplaceChars(encodeURIComponent(str), percentEncode_table)

----------------------------------------------------------------------------
(* String comparison and sorting.                                          *)

\* lexicographic comparison of a and b from position i on, by the weight W
\* of each character; a proper prefix comes first
RECURSIVE CompareFrom(_, _, _, _)
CompareFrom(a, b, i, W) ==
    IF i > Len(a) THEN (IF i > Len(b) THEN 0 ELSE -1)
    ELSE IF i > Len(b) THEN 1
    ELSE IF W[a[i]] < W[b[i]] THEN -1
    ELSE IF W[a[i]] > W[b[i]] THEN 1
    ELSE CompareFrom(a, b, i + 1, W)

\* the order of the default Array.prototype.sort and of < on strings:
\* UTF-16 code units, left to right, a proper prefix first
codeUnitCompare(a, b) == CompareFrom(a, b, 1, CodeTable)

\* String.prototype.localeCompare as the runtime's ICU implements it (root
\* collation, default strength): primary weights order punctuation, then
\* symbols, then digits, then letters regardless of case; strings equal at
\* the primary level are ordered lowercase before uppercase.
CollationOrder ==
    << " ", "_", "-", ",", ";", ":", "!", "?", ".", "'", "\"", "(", ")", "[", "]", "{", "}",
       "@", "*", "/", "\\", "&", "#", "%", "U+0060", "^", "+", "<", "=", ">", "|", "~", "$",
       "0", "1", "2", "3", "4", "5", "6", "7", "8", "9",
       "a", "b", "c", "d", "e", "f", "g", "h", "i", "j", "k", "l", "m",
       "n", "o", "p", "q", "r", "s", "t", "u", "v", "w", "x", "y", "z" >>

LowerChar(c) == IF c \in Upper THEN Ascii[Code(c) + 32 - 31] ELSE c

PrimaryTable ==
    [ c \in AsciiChars |-> CHOOSE i \in 1..Len(CollationOrder) : CollationOrder[i] = LowerChar(c) ] @@ << >>

CaseTable == [ c \in AsciiChars |-> IF c \in Upper THEN 1 ELSE 0 ] @@ << >>

localeCompare_levels(primary, tertiary) == IF primary # 0 THEN primary ELSE tertiary
localeCompare(a, b) ==
    localeCompare_levels(CompareFrom(a, b, 1, PrimaryTable), CompareFrom(a, b, 1, CaseTable))

\* Array.prototype.sort, stable, for a consistent comparator: the elements
\* elems rearranged by the comparisons cmp, where cmp[i][j] for j < i is what
\* the comparator returns for (elems[j], elems[i])
SortBy(elems, cmp) ==
    LET n == Len(elems)
        rank == [ i \in 1..n |->
                    1 + Cardinality({ j \in 1..n : \/ j < i /\ cmp[i][j] <= 0
                                                   \/ j > i /\ cmp[j][i] > 0 }) ] \o << >>
    IN  [ p \in 1..n |-> elems[CHOOSE i \in 1..n : rank[i] = p] ] \o << >>

\* .sort(): the default comparator, on strings
SortStrings(keys) ==
    SortBy(keys, [ i \in 1..Len(keys) |->
                    [ j \in 1..Len(keys) |->
                        IF j < i THEN codeUnitCompare(keys[j], keys[i]) ELSE 0 ] \o << >> ] \o << >>)

----------------------------------------------------------------------------
(* Parameter objects: a JS object is the sequence of its <<key, value>>    *)
(* properties in insertion order; keys are distinct strings.               *)

ObjectKeys(params) == [ i \in 1..Len(params) |-> params[i][1] ] \o << >>
Get(params, k) ==
    IF \E i \in 1..Len(params) : params[i][1] = k
    THEN params[CHOOSE i \in 1..Len(params) : params[i][1] = k][2]
    ELSE Undefined

\* { ...a, ...b } and  obj[k] = v : an existing key keeps its place
Put(params, k, v) ==
    IF \E i \in 1..Len(params) : params[i][1] = k
    THEN [ i \in 1..Len(params) |-> IF params[i][1] = k THEN << k, v >> ELSE params[i] ] \o << >>
    ELSE Append(params, << k, v >>)

RECURSIVE Spread(_, _)
Spread(a, b) == IF b = << >> THEN a ELSE Spread(Put(a, b[1][1], b[1][2]), Tail(b))

----------------------------------------------------------------------------
(* HMAC-SHA1, base64.  The digest is a fixed-width hash of key and message;*)
(* it is modelled by a two-digit base-64 checksum followed by the padding   *)
(* character, which keeps what the callers rely on: the same key and       *)
(* message give the same text, the text is drawn from the base64 alphabet. *)

Base64Alphabet ==
    << "A", "B", "C", "D", "E", "F", "G", "H", "I", "J", "K", "L", "M", "N", "O", "P",
       "Q", "R", "S", "T", "U", "V", "W", "X", "Y", "Z", "a", "b", "c", "d", "e", "f",
       "g", "h", "i", "j", "k", "l", "m", "n", "o", "p", "q", "r", "s", "t", "u", "v",
       "w", "x", "y", "z", "0", "1", "2", "3", "4", "5", "6", "7", "8", "9", "+", "/" >>

\* position-weighted checksum of s[lo..hi], modulo 64 * 64
RECURSIVE Mix(_, _, _)
Mix(s, lo, hi) ==
    IF lo > hi THEN 0
    ELSE IF lo = hi THEN (Code(s[lo]) * (((lo * 7) % 61) + 1)) % (64 * 64)
    ELSE (Mix(s, lo, (lo + hi) \div 2) + Mix(s, ((lo + hi) \div 2) + 1, hi)) % (64 * 64)

digestBase64(h) == << Base64Alphabet[(h \div 64) + 1], Base64Alphabet[(h % 64) + 1], "=" >>
createHmacDigest(key, msg) ==
    digestBase64((Mix(key, 1, Len(key)) * 31 + Mix(msg, 1, Len(msg)) + Len(key) + 1) % (64 * 64))

----------------------------------------------------------------------------
(* The signing routines, revision by revision.  A call returns the record   *)
(* of what it computed (the canonical parameter string, the signature base  *)
(* string, the HMAC key, the signature) or the error it threw.              *)

API_URL ==
    << "h", "t", "t", "p", "s", ":", "/", "/", "p", "l", "a", "t", "f", "o", "r", "m",
    ".", "f", "a", "t", "s", "e", "c", "r", "e", "t", ".", "c", "o", "m", "/", "r", "e",
    "s", "t", "/", "s", "e", "r", "v", "e", "r", ".", "a", "p", "i" >>

Amp == << "&" >>
Eq == << "=" >>
GET == << "G", "E", "T" >>
POST == << "P", "O", "S", "T" >>

\* what a signing routine computed: its parameter string, its base string,
\* its key, and the base64 HMAC-SHA1 digest it returns
Signed(ps, base, key) ==
    [ threw |-> "none", paramString |-> ps, baseString |-> base,
      signingKey |-> key, signature |-> createHmacDigest(key, base) ]
Threw(e) == [ threw |-> e ]

\* ---- src/api/barcode.js ----

buildParameterString_compare(a, b) ==
    IF a[1] = b[1] THEN localeCompare(a[2], b[2]) ELSE localeCompare(a[1], b[1])

buildParameterString_sorted(pairs) ==
    SortBy(pairs, [ i \in 1..Len(pairs) |->
                     [ j \in 1..Len(pairs) |->
                         IF j < i THEN buildParameterString_compare(pairs[j], pairs[i])
                         ELSE 0 ] \o << >> ] \o << >>)

buildParameterString_joined(encoded) ==
    Join([ i \in 1..Len(encoded) |-> encoded[i][1] \o Eq \o encoded[i][2] ], Amp)

buildParameterString(params) ==
    buildParameterString_joined(buildParameterString_sorted(
        [ i \in 1..Len(params) |->
            << oauthEncode(Str(params[i][1])), oauthEncode(params[i][2]) >> ] \o << >>))

buildSignature_baseString(httpMethod, url, paramString) ==
    toUpperCase(httpMethod.s) \o Amp \o oauthEncode(Str(url)) \o Amp \o oauthEncode(Str(paramString))

\* variant for C5: the secret goes into the key as it is
signingKey_unencoded(secret) == JSToString(secret) \o Amp

buildSignature_signingKey(secret) == oauthEncode(secret) \o Amp

\* variant for C7: the key also depends on how many calls were made before
buildSignature_counting(httpMethod, url, paramString, secret) ==
    Signed(paramString, buildSignature_baseString(httpMethod, url, paramString),
           buildSignature_signingKey(secret) \o DecimalDigits(draws))

buildSignature(httpMethod, url, paramString, secret) ==
    IF ~IsString(httpMethod) THEN Threw("TypeError")
    ELSE Signed(paramString, buildSignature_baseString(httpMethod, url, paramString),
                buildSignature_signingKey(secret))

\* ---- src/unnamed/part_000, first revision (percentEncode) ----

buildSignature_p000_pairs(keys, params) ==
    Join([ i \in 1..Len(keys) |->
             percentEncode(Str(keys[i])) \o Eq \o percentEncode(Get(params, keys[i])) ], Amp)

buildSignature_p000_paramString(params) ==
    buildSignature_p000_pairs(SortStrings(ObjectKeys(params)), params)

buildSignature_p000_hmac(method, url, paramString, CONSUMER_SECRET) ==
    Signed(paramString,
           Join(<< toUpperCase(method.s), percentEncode(Str(url)),
                   percentEncode(Str(paramString)) >>, Amp),
           percentEncode(CONSUMER_SECRET) \o Amp)

\* variant for C12: the routine mixes the current clock into what it signs
buildSignature_p000_clock(method, url, params, CONSUMER_SECRET) ==
    IF ~IsString(method) THEN Threw("TypeError")
    ELSE buildSignature_p000_hmac(method, url,
                                  buildSignature_p000_paramString(params) \o DecimalDigits(now),
                                  CONSUMER_SECRET)

buildSignature_p000(method, url, params, CONSUMER_SECRET) ==
    IF ~IsString(method) THEN Threw("TypeError")
    ELSE buildSignature_p000_hmac(method, url, buildSignature_p000_paramString(params),
                                  CONSUMER_SECRET)

\* ---- src/unnamed/part_000, second revision (makeSignature) ----

makeSignature_pairs(keys, params) ==
    Join([ i \in 1..Len(keys) |->
             encodeURIComponent(Str(keys[i])) \o Eq \o encodeURIComponent(Get(params, keys[i])) ], Amp)

makeSignature_sorted(params) == makeSignature_pairs(SortStrings(ObjectKeys(params)), params)

makeSignature_hmac(method, url, sorted, secret) ==
    Signed(sorted,
           JSToString(method) \o Amp \o encodeURIComponent(Str(url)) \o Amp
           \o encodeURIComponent(Str(sorted)),
           encodeURIComponent(secret) \o Amp)

makeSignature(method, url, params, secret) ==
    makeSignature_hmac(method, url, makeSignature_sorted(params), secret)

\* ---- src/unnamed/part_001 ----

generateOAuthSignature_pairs(keys, params) ==
    Join([ i \in 1..Len(keys) |->
             encodeURIComponent(Str(keys[i])) \o Eq \o encodeURIComponent(Get(params, keys[i])) ], Amp)

generateOAuthSignature_sortedParams(params) ==
    generateOAuthSignature_pairs(SortStrings(ObjectKeys(params)), params)

generateOAuthSignature_hmac(method, url, sortedParams, secret) ==
    Signed(sortedParams,
           Join(<< toUpperCase(method.s), encodeURIComponent(Str(url)),
                   encodeURIComponent(Str(sortedParams)) >>, Amp),
           encodeURIComponent(secret) \o Amp)

generateOAuthSignature(method, url, params, secret) ==
    IF ~IsString(method) THEN Threw("TypeError")
    ELSE generateOAuthSignature_hmac(method, url, generateOAuthSignature_sortedParams(params),
                                     secret)

\* ---- src/unnamed/part_002 ----

buildParameterString_p002(params) ==
    buildParameterString_joined(buildParameterString_sorted(
        [ i \in 1..Len(params) |->
            << oauthEncode_p002(Str(params[i][1])), oauthEncode_p002(params[i][2]) >> ] \o << >>))

buildSignature_p002(method, url, paramString, SECRET) ==
    IF ~IsString(method) THEN Threw("TypeError")
    ELSE Signed(paramString,
                toUpperCase(method.s) \o Amp \o oauthEncode_p002(Str(url)) \o Amp
                \o oauthEncode_p002(Str(paramString)),
                oauthEncode_p002(SECRET) \o Amp)

----------------------------------------------------------------------------
(* String literals of the callers.                                         *)

S_method == << "m", "e", "t", "h", "o", "d" >>
S_format == << "f", "o", "r", "m", "a", "t" >>
S_json == << "j", "s", "o", "n" >>
S_barcode == << "b", "a", "r", "c", "o", "d", "e" >>
S_food_id == << "f", "o", "o", "d", "_", "i", "d" >>
S_oauth_consumer_key ==
    << "o", "a", "u", "t", "h", "_", "c", "o", "n", "s", "u", "m", "e", "r", "_", "k", "e",
    "y" >>
S_oauth_nonce == << "o", "a", "u", "t", "h", "_", "n", "o", "n", "c", "e" >>
S_oauth_signature_method ==
    << "o", "a", "u", "t", "h", "_", "s", "i", "g", "n", "a", "t", "u", "r", "e", "_", "m",
    "e", "t", "h", "o", "d" >>
S_oauth_timestamp == << "o", "a", "u", "t", "h", "_", "t", "i", "m", "e", "s", "t", "a", "m", "p" >>
S_oauth_version == << "o", "a", "u", "t", "h", "_", "v", "e", "r", "s", "i", "o", "n" >>
S_oauth_signature == << "o", "a", "u", "t", "h", "_", "s", "i", "g", "n", "a", "t", "u", "r", "e" >>
S_HMAC_SHA1 == << "H", "M", "A", "C", "-", "S", "H", "A", "1" >>
S_1_0 == << "1", ".", "0" >>
S_find_id_for_barcode ==
    << "f", "o", "o", "d", ".", "f", "i", "n", "d", "_", "i", "d", "_", "f", "o", "r", "_",
    "b", "a", "r", "c", "o", "d", "e" >>
S_food_get_v4 == << "f", "o", "o", "d", ".", "g", "e", "t", ".", "v", "4" >>
HardcodedKey ==
    << "8", "7", "a", "c", "c", "b", "3", "6", "0", "8", "c", "a", "4", "3", "c", "5", "9",
    "5", "b", "2", "8", "6", "8", "e", "0", "6", "a", "2", "6", "0", "8", "0" >>
HardcodedSecret ==
    << "f", "d", "d", "9", "a", "0", "e", "3", "1", "d", "1", "d", "4", "9", "5", "9", "9",
    "d", "5", "3", "0", "0", "d", "4", "9", "b", "7", "b", "d", "d", "2", "2" >>

----------------------------------------------------------------------------
(* Direct calls of the signing routines (specification SpecSign).          *)

Revisions == { "barcode", "p000a", "p000b", "p001", "p002" }

MaxParams == 2

ParamKeys == { << "a" >>, << "B" >>, << "_" >>, << "." >>, << "/" >> }
ParamValues ==
    { Str(<< "1" >>), Str(<< "!", "*", "'", "(", ")" >>), Str(<< "a", " ", "~", EAcute >>),
      Num(1), Bool(TRUE), Undefined, Null, Obj }

\* objects of at most MaxParams properties, in every insertion order
ParamObjects ==
    { p \in UNION { [ 1..n -> ParamKeys \X ParamValues ] : n \in 0..MaxParams } :
        \A i, j \in 1..Len(p) : i # j => p[i][1] # p[j][1] }

Methods ==
    { Str(<< "G", "E", "T" >>), Str(<< "P", "O", "S", "T" >>), Str(<< "p", "o", "s", "t" >>),
      Str(<< "D", "E", "L", "E", "T", "E" >>) }

Secrets == { Str(<< "s", "3" >>), Str(<< "s", "&", " " >>), Str(<< >>), Undefined }

NoResult == [ threw |-> "not called" ]

\* the state of the proxy while only the signer is exercised
ProxyIdle ==
    /\ env = [ rev |-> "none" ]
    /\ now = 0
    /\ draws = 0
    /\ rateBuckets = << >>
    /\ pc = << >>
    /\ status = << >>
    /\ upstream = << >>
    /\ sent = << >>

\* no handler serves a request sequence
LimiterIdle ==
    /\ handler = "none"
    /\ krogerRateBuckets = << >>
    /\ windows = << >>

RestIdle == LimiterIdle /\ kroger = << >> /\ userApi = << >> /\ stripeApi = << >>

InitSign ==
    /\ call \in [ rev : Revisions, method : Methods, params : ParamObjects, secret : Secrets ]
    /\ result = NoResult
    /\ ProxyIdle
    /\ RestIdle

\* barcode.js:125-126, as callFatSecret composes the two routines
SignBarcode ==
    /\ call.rev = "barcode" /\ result = NoResult
    /\ result' = buildSignature(call.method, API_URL, buildParameterString(call.params), call.secret)
    /\ UNCHANGED << call, proxyVars, restVars >>

\* part_000:11-13 throws at module load when the secret is unset, so the
\* routine can be called only with a truthy CONSUMER_SECRET
SignP000a ==
    /\ call.rev = "p000a" /\ result = NoResult
    /\ ~Falsy(call.secret)
    /\ result' = buildSignature_p000(call.method, API_URL, call.params, call.secret)
    /\ UNCHANGED << call, proxyVars, restVars >>

SignP000b ==
    /\ call.rev = "p000b" /\ result = NoResult
    /\ result' = makeSignature(call.method, API_URL, call.params, call.secret)
    /\ UNCHANGED << call, proxyVars, restVars >>

SignP001 ==
    /\ call.rev = "p001" /\ result = NoResult
    /\ result' = generateOAuthSignature(call.method, API_URL, call.params, call.secret)
    /\ UNCHANGED << call, proxyVars, restVars >>

SignP002 ==
    /\ call.rev = "p002" /\ result = NoResult
    /\ result' = buildSignature_p002(call.method, API_URL, buildParameterString_p002(call.params), call.secret)
    /\ UNCHANGED << call, proxyVars, restVars >>

NextSign == SignBarcode \/ SignP000a \/ SignP000b \/ SignP001 \/ SignP002

SpecSign == InitSign /\ [][NextSign]_vars

----------------------------------------------------------------------------
(* callFatSecret / fatSecretPost: what each revision signs and transmits.  *)
(* `random` is the text the random source returned in this call and `ms`   *)
(* the Date.now() it read.  The outcome is the request handed to fetch, or *)
(* the error thrown before any request was made.                           *)

Outbound(transport, url, wire, params, signedMethod, signedUrl, sig) ==
    [ threw |-> "none", transport |-> transport, url |-> url, wire |-> wire, params |-> params,
      signedMethod |-> signedMethod, signedUrl |-> signedUrl, sig |-> sig ]

Timestamp(ms) == Str(DecimalDigits(ms \div 1000))

\* src/api/barcode.js:110-116, src/unnamed/part_002:51-57
callFatSecret_oauthParams(KEY, nonce, ms) ==
    << << S_oauth_consumer_key, KEY >>,
       << S_oauth_nonce, nonce >>,
       << S_oauth_signature_method, Str(S_HMAC_SHA1) >>,
       << S_oauth_timestamp, Timestamp(ms) >>,
       << S_oauth_version, Str(S_1_0) >> >>

\* src/api/barcode.js:118-123, src/unnamed/part_002:59-64
callFatSecret_allParams(methodName, extraParams, oauthParams) ==
    Spread(Spread(<< << S_method, Str(methodName) >>, << S_format, Str(S_json) >> >>,
                  extraParams), oauthParams)

\* variant for C13: the base64 signature is appended as it is
callFatSecret_fetch_raw(allParams, signature) ==
    Outbound("GET", API_URL,
             signature.paramString \o Amp \o S_oauth_signature \o Eq \o signature.signature,
             allParams, Str(GET), API_URL, signature)

\* src/api/barcode.js:128-130
callFatSecret_fetch(allParams, signature) ==
    Outbound("GET", API_URL,
             signature.paramString \o Amp \o S_oauth_signature \o Eq
             \o oauthEncode(Str(signature.signature)),
             allParams, Str(GET), API_URL, signature)

\* src/api/barcode.js:125-126
callFatSecret_signed(allParams, SECRET) ==
    callFatSecret_fetch(allParams,
                        buildSignature(Str(GET), API_URL, buildParameterString(allParams), SECRET))

\* variant for C8: the nonce is made once, when the module loads
callFatSecret_moduleNonce(methodName, extraParams, KEY, SECRET, random, ms) ==
    IF Falsy(KEY) \/ Falsy(SECRET) THEN Threw("Error")
    ELSE callFatSecret_signed(
             callFatSecret_allParams(methodName, extraParams,
                 callFatSecret_oauthParams(KEY, Str([ i \in 1..32 |-> "0" ]), ms)), SECRET)

\* src/api/barcode.js:102-130
callFatSecret(methodName, extraParams, KEY, SECRET, random, ms) ==
    IF Falsy(KEY) \/ Falsy(SECRET) THEN Threw("Error")
    ELSE callFatSecret_signed(
             callFatSecret_allParams(methodName, extraParams,
                 callFatSecret_oauthParams(KEY, Str(random), ms)), SECRET)

\* src/unnamed/part_000:75-88
callFatSecret_p000_body(params) ==
    Join([ i \in 1..Len(params) |->
             percentEncode(Str(params[i][1])) \o Eq \o percentEncode(params[i][2]) ], Amp)

callFatSecret_p000_post(params, signature) ==
    Outbound("POST", API_URL,
             callFatSecret_p000_body(Put(params, S_oauth_signature, Str(signature.signature))),
             params, Str(POST), API_URL, signature)

\* variant for C23: the request is signed as a GET and sent as a POST
callFatSecret_p000_signedAsGet(params, CONSUMER_SECRET) ==
    callFatSecret_p000_post(params,
                            buildSignature_p000(Str(GET), API_URL, params, CONSUMER_SECRET))

\* src/unnamed/part_000:70-73
callFatSecret_p000_signed(params, CONSUMER_SECRET) ==
    callFatSecret_p000_post(params,
                            buildSignature_p000(Str(POST), API_URL, params, CONSUMER_SECRET))

\* src/unnamed/part_000:57-88
callFatSecret_p000(methodName, extraParams, CONSUMER_KEY, CONSUMER_SECRET, random, ms) ==
    callFatSecret_p000_signed(
        Spread(extraParams,
               << << S_method, Str(methodName) >>,
                  << S_format, Str(S_json) >>,
                  << S_oauth_consumer_key, CONSUMER_KEY >>,
                  << S_oauth_nonce, Str(random) >>,
                  << S_oauth_signature_method, Str(S_HMAC_SHA1) >>,
                  << S_oauth_timestamp, Timestamp(ms) >>,
                  << S_oauth_version, Str(S_1_0) >> >>), CONSUMER_SECRET)

\* src/unnamed/part_000:208-221
callFatSecret_p000b_body(params) ==
    Join([ i \in 1..Len(params) |->
             encodeURIComponent(Str(params[i][1])) \o Eq
             \o encodeURIComponent(params[i][2]) ], Amp)

callFatSecret_p000b_post(params, signature) ==
    Outbound("POST", API_URL,
             callFatSecret_p000b_body(Put(params, S_oauth_signature, Str(signature.signature))),
             params, Str(POST), API_URL, signature)

\* src/unnamed/part_000:205-206
callFatSecret_p000b_signed(params, SECRET) ==
    callFatSecret_p000b_post(params, makeSignature(Str(POST), API_URL, params, SECRET))

\* src/unnamed/part_000:192-221
callFatSecret_p000b(methodName, extraParams, KEY, SECRET, random, ms) ==
    callFatSecret_p000b_signed(
        Spread(<< << S_method, Str(methodName) >>,
                  << S_format, Str(S_json) >>,
                  << S_oauth_consumer_key, KEY >>,
                  << S_oauth_nonce, Str(random) >>,
                  << S_oauth_signature_method, Str(S_HMAC_SHA1) >>,
                  << S_oauth_timestamp, Timestamp(ms) >>,
                  << S_oauth_version, Str(S_1_0) >> >>, extraParams), SECRET)

\* src/unnamed/part_001:46 (new URLSearchParams(signed).toString())
fatSecretPost_body(signed) ==
    Join([ i \in 1..Len(signed) |->
             formEncode(Str(signed[i][1])) \o Eq \o formEncode(signed[i][2]) ], Amp)

\* src/unnamed/part_001:44-54
fatSecretPost_fetch(oauthParams, signature) ==
    Outbound("POST", API_URL,
             fatSecretPost_body(Put(oauthParams, S_oauth_signature, Str(signature.signature))),
             oauthParams, Str(POST), API_URL, signature)

\* src/unnamed/part_001:39-41
fatSecretPost_signed(oauthParams, CONSUMER_SECRET) ==
    fatSecretPost_fetch(oauthParams,
                        generateOAuthSignature(Str(POST), API_URL, oauthParams, CONSUMER_SECRET))

\* src/unnamed/part_001:28-54 (buildSignedParams, fatSecretPost)
fatSecretPost(params, CONSUMER_KEY, CONSUMER_SECRET, random, ms) ==
    fatSecretPost_signed(
        Spread(params,
               << << S_format, Str(S_json) >>,
                  << S_oauth_consumer_key, CONSUMER_KEY >>,
                  << S_oauth_signature_method, Str(S_HMAC_SHA1) >>,
                  << S_oauth_timestamp, Timestamp(ms) >>,
                  << S_oauth_nonce, Str(random) >>,
                  << S_oauth_version, Str(S_1_0) >> >>), CONSUMER_SECRET)

\* src/unnamed/part_002:69-72
callFatSecret_p002_fetch(allParams, signature) ==
    Outbound("GET", API_URL,
             signature.paramString \o Amp \o S_oauth_signature \o Eq
             \o oauthEncode_p002(Str(signature.signature)),
             allParams, Str(GET), API_URL, signature)

\* src/unnamed/part_002:66-67
callFatSecret_p002_signed(allParams, SECRET) ==
    callFatSecret_p002_fetch(allParams,
        buildSignature_p002(Str(GET), API_URL, buildParameterString_p002(allParams), SECRET))

\* src/unnamed/part_002:50-72
callFatSecret_p002(methodName, extraParams, KEY, SECRET, random, ms) ==
    callFatSecret_p002_signed(
        callFatSecret_allParams(methodName, extraParams,
            callFatSecret_oauthParams(KEY, Str(random), ms)), SECRET)

\* process.env.X || '<literal>' (part_000:172-173, part_001:9-10)
OrDefault(v, literal) == IF Falsy(v) THEN Str(literal) ELSE v

\* the upstream call of the deployed revision
UpstreamCall(rev, methodName, extraParams, random, ms) ==
    CASE rev = "barcode" -> callFatSecret(methodName, extraParams, env.KEY, env.SECRET, random, ms)
      [] rev = "p000a" -> callFatSecret_p000(methodName, extraParams, env.KEY, env.SECRET, random, ms)
      [] rev = "p000b" -> callFatSecret_p000b(methodName, extraParams,
                                               OrDefault(env.KEY, HardcodedKey),
                                               OrDefault(env.SECRET, HardcodedSecret), random, ms)
      [] rev = "p001" -> fatSecretPost(Spread(<< << S_method, Str(methodName) >> >>, extraParams),
                                       OrDefault(env.KEY, HardcodedKey),
                                       OrDefault(env.SECRET, HardcodedSecret), random, ms)
      [] rev = "p002" -> callFatSecret_p002(methodName, extraParams, env.KEY, env.SECRET, random, ms)

----------------------------------------------------------------------------
(* The barcode handlers (specification Spec).                              *)

\* two handler invocations, numbered in their order of arrival, which may
\* overlap at their awaits
Invocations == { 1, 2 }

\* the clock advances in steps of TickMs up to MaxNow
MaxNow == 1500
TickMs == 1500

RATE_LIMIT_WINDOW_MS == 60 * 1000
RATE_LIMIT_MAX_REQUESTS == 30

Ips == { "203.0.113.7", "198.51.100.9" }
Codes == { Str(<< "0", " ", "~", "!" >>) }
FoodIdValue == << "3", "3" >>

\* what the random source can return: crypto.randomBytes(n).toString('hex')
\* and Math.random().toString(36).substr(2)
RandomHex(nBytes) == { [ i \in 1..(2 * nBytes) |-> "f" ], [ i \in 1..(2 * nBytes) |-> "1" ] }
MathRandomBase36 == { << "4", "f", "z", "y", "o", "8", "2", "m", "v", "y", "r" >>,
                      << "k", "2", "q", "9", "x", "0", "c", "7", "d" >> }
RandomSource(rev) ==
    CASE rev \in { "barcode", "p000a", "p002" } -> RandomHex(16)
      [] rev = "p001" -> RandomHex(8)
      [] rev = "p000b" -> MathRandomBase36

\* an upstream reply: the HTTP status class and what the body parses to
Reply(ok, body, error, food_id) == [ ok |-> ok, body |-> body, error |-> error, food_id |-> food_id ]
Replies ==
    { Reply(TRUE, "notjson", FALSE, FALSE),
      Reply(TRUE, "null", FALSE, FALSE),
      Reply(TRUE, "object", FALSE, FALSE),
      Reply(TRUE, "object", FALSE, TRUE),
      Reply(TRUE, "object", TRUE, FALSE),
      Reply(TRUE, "object", TRUE, TRUE),
      Reply(FALSE, "object", TRUE, FALSE) }

\* callFatSecret after the fetch: does reading the reply throw?
ReplyThrows(rev, reply) ==
    \/ reply.body = "notjson"
    \/ rev = "p002" /\ ~reply.ok

\* result?.food_id?.value || result?.food_id
FoodIdOf(reply) == IF reply.body = "object" /\ reply.food_id THEN Str(FoodIdValue) ELSE Undefined

\* the handler between the two upstream calls: the status it answers, or 0
\* when it goes on to food.get.v4
AfterStepOne(rev, reply) ==
    CASE rev = "barcode" ->
            IF reply.body = "object" /\ reply.error THEN 404
            ELSE IF Falsy(FoodIdOf(reply)) THEN 404 ELSE 0
      [] rev = "p000a" ->
            IF reply.body = "null" THEN 500
            ELSE IF reply.error THEN 404
            ELSE IF Falsy(FoodIdOf(reply)) THEN 404 ELSE 0
      [] rev = "p000b" ->
            IF Falsy(FoodIdOf(reply)) \/ reply.error THEN 404 ELSE 0
      [] rev = "p001" ->
            IF Falsy(FoodIdOf(reply)) THEN 404 ELSE 0
      [] rev = "p002" ->
            IF Falsy(FoodIdOf(reply)) THEN 404 ELSE 0

\* the handler after food.get.v4 returned
AfterStepTwo(rev, reply) ==
    CASE rev = "barcode" -> IF reply.body = "object" /\ reply.error THEN 500 ELSE 200
      [] rev \in { "p000a", "p000b" } ->
            IF reply.body = "null" THEN 500 ELSE IF reply.error THEN 500 ELSE 200
      [] rev \in { "p001", "p002" } -> 200

\* barcode.js cleanupRateBuckets
cleanupRateBuckets(buckets, t) ==
    [ ip \in { i \in DOMAIN buckets : ~(t >= buckets[i].resetAt + RATE_LIMIT_WINDOW_MS) } |-> buckets[ip] ]

\* barcode.js checkRateLimit: the buckets after the call
checkRateLimit_buckets(buckets, ip, t) ==
    LET bucket == IF ip \notin DOMAIN buckets \/ t >= buckets[ip].resetAt
                  THEN [ count |-> 0, resetAt |-> t + RATE_LIMIT_WINDOW_MS ]
                  ELSE buckets[ip]
    IN  [ i \in DOMAIN buckets \cup { ip } |->
            IF i = ip THEN [ bucket EXCEPT !.count = @ + 1 ] ELSE buckets[i] ]

\* variant for C14: one request more than the limit is let through
checkRateLimit_allowed_oneMore(buckets, ip, t) ==
    checkRateLimit_buckets(buckets, ip, t)[ip].count <= RATE_LIMIT_MAX_REQUESTS + 1

\* barcode.js checkRateLimit: allowed
checkRateLimit_allowed(buckets, ip, t) ==
    checkRateLimit_buckets(buckets, ip, t)[ip].count <= RATE_LIMIT_MAX_REQUESTS

\* part_000:11-13: the module throws while loading when a credential is unset
ModuleLoads(rev) == rev = "p000a" => (~Falsy(env.KEY) /\ ~Falsy(env.SECRET))

Credentials ==
    { [ KEY |-> Str(<< "k", "1" >>), SECRET |-> Str(<< "s", "&", " " >>) ],
      [ KEY |-> Str(<< "k", "1" >>), SECRET |-> Str(<< >>) ],
      [ KEY |-> Str(<< "k", "1" >>), SECRET |-> Undefined ] }

Init ==
    /\ call = [ rev |-> "none" ]
    /\ result = NoResult
    /\ \E r \in Revisions, c \in Credentials : env = [ rev |-> r, KEY |-> c.KEY, SECRET |-> c.SECRET ]
    /\ now = 0
    /\ draws = 0
    /\ rateBuckets = << >>
    /\ pc = [ h \in Invocations |-> "idle" ]
    /\ status = [ h \in Invocations |-> 0 ]
    /\ upstream = [ h \in Invocations |-> 0 ]
    /\ sent = [ h \in Invocations |-> << >> ]
    /\ RestIdle

\* the handler answers and returns
Respond(h, code) ==
    /\ pc' = [ pc EXCEPT ![h] = "done" ]
    /\ status' = [ status EXCEPT ![h] = code ]
    /\ sent' = [ sent EXCEPT ![h] = << >> ]

\* one upstream call of invocation h: the request is handed to fetch and the
\* handler awaits the reply, or the call throws and the handler answers 500
Call_outcome(h, awaiting, random, out) ==
    IF out.threw = "none"
    THEN /\ draws' = draws + 1
         /\ sent' = [ sent EXCEPT ![h] =
                        Append(@, [ request |-> out, drawn |-> random, at |-> now ]) ]
         /\ upstream' = [ upstream EXCEPT ![h] = @ + 1 ]
         /\ pc' = [ pc EXCEPT ![h] = awaiting ]
         /\ UNCHANGED status
    ELSE /\ Respond(h, 500)
         /\ UNCHANGED << draws, upstream >>

Call(h, methodName, extraParams, awaiting) ==
    \E random \in RandomSource(env.rev) :
        Call_outcome(h, awaiting, random,
                     UpstreamCall(env.rev, methodName, extraParams, random, now))

\* a request arrives: the handler runs up to its first await
Invoke(h, method, code, ip) ==
    /\ pc[h] = "idle"
    /\ \A g \in Invocations : g < h => pc[g] # "idle"
    /\ rateBuckets' =
          IF env.rev # "barcode" THEN rateBuckets
          ELSE IF method # "GET" THEN cleanupRateBuckets(rateBuckets, now)
          ELSE checkRateLimit_buckets(cleanupRateBuckets(rateBuckets, now), ip, now)
    /\ IF ~ModuleLoads(env.rev) THEN Respond(h, 500) /\ UNCHANGED << draws, upstream >>
       ELSE IF method = "OPTIONS" THEN Respond(h, 200) /\ UNCHANGED << draws, upstream >>
       ELSE IF method # "GET" THEN Respond(h, 405) /\ UNCHANGED << draws, upstream >>
       ELSE IF env.rev = "barcode"
               /\ ~checkRateLimit_allowed(cleanupRateBuckets(rateBuckets, now), ip, now)
            THEN Respond(h, 429) /\ UNCHANGED << draws, upstream >>
       ELSE IF Falsy(code) THEN Respond(h, 400) /\ UNCHANGED << draws, upstream >>
       ELSE Call(h, S_find_id_for_barcode, << << S_barcode, code >> >>, "await1")
    /\ UNCHANGED << signVars, env, now, restVars >>

\* the reply to food.find_id_for_barcode arrives
StepOneReply(h, reply) ==
    /\ pc[h] = "await1"
    /\ IF ReplyThrows(env.rev, reply) THEN Respond(h, 500) /\ UNCHANGED << draws, upstream >>
       ELSE IF AfterStepOne(env.rev, reply) # 0
            THEN Respond(h, AfterStepOne(env.rev, reply)) /\ UNCHANGED << draws, upstream >>
       ELSE Call(h, S_food_get_v4, << << S_food_id, Str(JSToString(FoodIdOf(reply))) >> >>, "await2")
    /\ UNCHANGED << signVars, env, now, rateBuckets, restVars >>

\* the reply to food.get.v4 arrives
StepTwoReply(h, reply) ==
    /\ pc[h] = "await2"
    /\ IF ReplyThrows(env.rev, reply) THEN Respond(h, 500)
       ELSE Respond(h, AfterStepTwo(env.rev, reply))
    /\ UNCHANGED << signVars, env, now, draws, rateBuckets, upstream, restVars >>

\* time passes
Tick ==
    /\ now + TickMs <= MaxNow
    /\ now' = now + TickMs
    /\ UNCHANGED << signVars, env, draws, rateBuckets, pc, status, upstream, sent, restVars >>

\* the requests a client can make; only barcode.js reads the client address
Requests ==
    { [ method |-> "OPTIONS", code |-> Undefined ], [ method |-> "POST", code |-> Undefined ],
      [ method |-> "GET", code |-> Undefined ] }
    \cup { [ method |-> "GET", code |-> c ] : c \in Codes }
ClientIps == IF env.rev = "barcode" THEN Ips ELSE { "unread" }

Next ==
    \/ \E h \in Invocations, req \in Requests, ip \in ClientIps : Invoke(h, req.method, req.code, ip)
    \/ \E h \in Invocations, reply \in Replies : StepOneReply(h, reply)
    \/ \E h \in Invocations, reply \in Replies : StepTwoReply(h, reply)
    \/ Tick

Spec == Init /\ [][Next]_vars

----------------------------------------------------------------------------
(* Reference notions the claims are stated with.                           *)

\* String.prototype.split on a one-character separator
Split(s, c) ==
    LET P == { i \in 1..Len(s) : s[i] = c }
        n == Cardinality(P) + 1
        nth(k) == CHOOSE q \in P : Cardinality({ r \in P : r < q }) = k - 1
    IN  [ k \in 1..n |-> SubSeq(s, IF k = 1 THEN 1 ELSE nth(k - 1) + 1,
                                   IF k = n THEN Len(s) ELSE nth(k) - 1) ]

\* the part of an "encodedKey=encodedValue" pair before / after its first "="
PairKey(pair) == Split(pair, "=")[1]
PairValue(pair) == SubSeq(pair, Len(PairKey(pair)) + 2, Len(pair))

\* RFC 3986 percent-encoding as the specification words it
Rfc3986Table == [ c \in Chars |-> IF c \in Unreserved THEN << c >> ELSE PctChar(c) ] @@ << >>
Rfc3986Encode(s) == ReplaceChars(s, Rfc3986Table)

ReservedFive == { "!", "*", "'", "(", ")" }

Called == result # NoResult
Returned == Called /\ result.threw = "none"

----------------------------------------------------------------------------
(* Claims settled against the direct calls (SpecSign).                     *)

\* C1: in every signing routine the canonical parameter string holds only
\* unreserved characters, "%" escapes and the "=" / "&" separators; none of
\* ! * ' ( ) appears raw.
C1_NoRawReservedCharacter ==
    Returned =>
        \A i \in 1..Len(result.paramString) :
            /\ result.paramString[i] \notin ReservedFive
            /\ result.paramString[i] \in Unreserved \cup { "%", "=", "&" }

\* C2: the pairs of the canonical parameter string (barcode.js and part_002
\* buildParameterString, part_000 buildSignature) are in ascending code point
\* order of the encoded key, ties broken by the encoded value.
C2_PairsInCodepointOrder ==
    (Returned /\ call.rev \in { "barcode", "p002", "p000a" }) =>
        LET pairs == Split(result.paramString, "&")
        IN  \A i \in 1..(Len(pairs) - 1) :
                LET k == codeUnitCompare(PairKey(pairs[i]), PairKey(pairs[i + 1]))
                IN  \/ k < 0
                    \/ k = 0 /\ codeUnitCompare(PairValue(pairs[i]), PairValue(pairs[i + 1])) <= 0

\* C4: the signed base string (barcode.js buildSignature, part_000
\* makeSignature) is upper(method) & percentEncode(url) &
\* percentEncode(canonical parameter string), whatever the case of the
\* method the caller passed.
C4_BaseString ==
    (Returned /\ call.rev \in { "barcode", "p000b" }) =>
        result.baseString =
            toUpperCase(call.method.s) \o Amp \o Rfc3986Encode(API_URL) \o Amp
            \o Rfc3986Encode(result.paramString)

\* C9: a method outside {GET, POST} makes signing (barcode.js and part_000
\* buildSignature) fail: an error is thrown, no signature is returned.
C9_UnsupportedMethodRejected ==
    (Called /\ call.rev \in { "barcode", "p000a" }
            /\ toUpperCase(call.method.s) \notin { GET, POST }) =>
        ~Returned

\* C10: a parameter value that is not a string makes signing (barcode.js
\* oauthEncode / buildParameterString) fail: an error is thrown, the value
\* is never coerced into the canonical parameter string.
C10_NonStringValueRejected ==
    (Called /\ call.rev = "barcode" /\ \E i \in 1..Len(call.params) : ~IsString(call.params[i][2])) =>
        ~Returned

----------------------------------------------------------------------------
(* Claims settled against the handlers (Spec).                             *)

\* where the upstream requests of the running invocations are logged
Logged == { << h, i >> \in Invocations \X { 1, 2 } : h \in DOMAIN sent /\ i <= Len(sent[h]) }
Entry(e) == sent[e[1]][e[2]]

\* the "encodedKey=encodedValue" pairs that were signed / that go on the wire
SignedPairs(e) == Split(Entry(e).request.sig.paramString, "&")
WirePairs(e) == Split(Entry(e).request.wire, "&")
Range(f) == { f[x] : x \in DOMAIN f }

\* C3: the pairs on the wire of every outbound request are the signed pairs
\* (same keys, same values, same encoding) plus oauth_signature, which is
\* not among the signed pairs.
C3_SignedSetIsTransmittedSet ==
    \A e \in Logged :
        /\ \A pair \in Range(SignedPairs(e)) : PairKey(pair) # S_oauth_signature
        /\ { pair \in Range(WirePairs(e)) : PairKey(pair) # S_oauth_signature } = Range(SignedPairs(e))
        /\ Len(WirePairs(e)) = Len(SignedPairs(e)) + 1

\* C5: the HMAC key (barcode.js and part_002 buildSignature) is the
\* percent-encoded consumer secret, "&", and the percent-encoded empty token
\* secret: it ends in "&" and holds no other "&".
C5_SigningKey ==
    \A e \in Logged :
        env.rev \in { "barcode", "p002" } =>
            LET key == Entry(e).request.sig.signingKey
            IN  /\ IsString(env.SECRET) =>
                       key = Rfc3986Encode(env.SECRET.s) \o Amp \o Rfc3986Encode(<< >>)
                /\ Len(key) >= 1 /\ key[Len(key)] = "&"
                /\ Cardinality({ i \in 1..Len(key) : key[i] = "&" }) = 1

\* a request signed by barcode.js with a secret that holds "&" and a space
C5_Witness ==
    /\ env.rev = "barcode" /\ IsString(env.SECRET)
    /\ Contains(env.SECRET.s, "&") /\ Contains(env.SECRET.s, " ")
    /\ Logged # {}

\* C6: with an empty or absent consumer secret (barcode.js, part_001,
\* part_002) nothing is signed and no request goes out.
C6_EmptySecretRejected ==
    (env.rev \in { "barcode", "p001", "p002" } /\ Falsy(env.SECRET)) =>
        (Logged = {} /\ draws = 0)

C8_FreshNonce ==
    /\ \A e \in Logged :
          /\ Get(Entry(e).request.params, S_oauth_nonce) = Str(Entry(e).drawn)
          /\ Get(Entry(e).request.params, S_oauth_timestamp) = Str(DecimalDigits(Entry(e).at \div 1000))
          /\ (S_oauth_nonce \o Eq \o Entry(e).drawn) \in Range(WirePairs(e))
          /\ (S_oauth_timestamp \o Eq \o DecimalDigits(Entry(e).at \div 1000)) \in Range(WirePairs(e))
    /\ \A h \in DOMAIN sent : Len(sent[h]) <= upstream[h]
    /\ DOMAIN sent = Invocations => draws = upstream[1] + upstream[2]

\* one invocation made its two calls with different nonces at different
\* seconds while the other invocation has a call in flight
C8_Witness ==
    /\ DOMAIN sent = Invocations
    /\ Len(sent[1]) = 2 /\ Len(sent[2]) >= 1
    /\ sent[1][1].drawn # sent[1][2].drawn
    /\ sent[1][1].at # sent[1][2].at
    /\ sent[2][1].drawn # sent[1][2].drawn

----------------------------------------------------------------------------
(* The receiver of a request, as the specification describes it: it decodes *)
(* what arrived, drops oauth_signature and signs the rest itself.           *)

HexValue(c) == (CHOOSE i \in 1..16 : HexUpper[i] = UpperChar(c)) - 1
CharOf(cp) == CHOOSE c \in Chars : Code(c) = cp

\* the bytes an encoded string stands for; a form body writes a space as +
RECURSIVE DecodeBytes(_, _, _)
DecodeBytes(s, i, form) ==
    IF i > Len(s) THEN << >>
    ELSE IF s[i] = "%" /\ i + 2 <= Len(s)
         THEN << 16 * HexValue(s[i + 1]) + HexValue(s[i + 2]) >> \o DecodeBytes(s, i + 3, form)
    ELSE IF form /\ s[i] = "+" THEN << 32 >> \o DecodeBytes(s, i + 1, form)
    ELSE << Code(s[i]) >> \o DecodeBytes(s, i + 1, form)

RECURSIVE Utf8Decode(_, _)
Utf8Decode(bs, i) ==
    IF i > Len(bs) THEN << >>
    ELSE IF bs[i] < 128 THEN << CharOf(bs[i]) >> \o Utf8Decode(bs, i + 1)
    ELSE << CharOf((bs[i] - 192) * 64 + (bs[i + 1] - 128)) >> \o Utf8Decode(bs, i + 2)

PercentDecode(s, form) == Utf8Decode(DecodeBytes(s, 1, form), 1)

\* the mapping the receiver reads from the query string or the form body
ReceivedFrom(pairs, form) ==
    [ i \in 1..Len(pairs) |->
        << PercentDecode(PairKey(pairs[i]), form), PercentDecode(PairValue(pairs[i]), form) >> ] \o << >>
Received(e) == ReceivedFrom(WirePairs(e), Entry(e).request.transport = "POST")

\* the oauth_signature that arrived, and the other parameters
ReceivedSignature(e) ==
    Received(e)[CHOOSE i \in 1..Len(Received(e)) : Received(e)[i][1] = S_oauth_signature][2]
ReceivedParams(e) == SelectSeq(Received(e), LAMBDA pair : pair[1] # S_oauth_signature)

\* the specification's canonical parameter string: RFC 3986 encoding, code
\* point order of the encoded key, then of the encoded value
ReferenceCompare(a, b) ==
    IF a[1] = b[1] THEN codeUnitCompare(a[2], b[2]) ELSE codeUnitCompare(a[1], b[1])
ReferenceSorted(pairs) ==
    SortBy(pairs, [ i \in 1..Len(pairs) |->
                     [ j \in 1..Len(pairs) |->
                         IF j < i THEN ReferenceCompare(pairs[j], pairs[i]) ELSE 0 ] \o << >> ] \o << >>)
ReferenceParameterString(params) ==
    buildParameterString_joined(ReferenceSorted(
        [ i \in 1..Len(params) |->
            << Rfc3986Encode(params[i][1]), Rfc3986Encode(params[i][2]) >> ] \o << >>))

\* the specification's signature over a method, a URL, a mapping and a secret
ReferenceSignature(method, url, params, secret) ==
    createHmacDigest(Rfc3986Encode(secret) \o Amp,
                     toUpperCase(method) \o Amp \o Rfc3986Encode(url) \o Amp
                     \o Rfc3986Encode(ReferenceParameterString(params)))

TransportMethod(e) == IF Entry(e).request.transport = "GET" THEN GET ELSE POST

\* C11: the receiver of every outbound request, recomputing the signature
\* from what arrived (decoded parameters without oauth_signature, the
\* request's method and URL, the shared consumer secret), obtains the
\* oauth_signature that arrived.
C11_ReceiverRecomputesSignature ==
    (IsString(env.SECRET) /\ ~Falsy(env.SECRET)) =>
        \A e \in Logged :
            ReferenceSignature(TransportMethod(e), Entry(e).request.url, ReceivedParams(e),
                               env.SECRET.s)
            = ReceivedSignature(e)

\* the signing routine of the deployed revision, run again on a logged
\* request's method, URL and mapping
SignAgain(request) ==
    CASE env.rev = "barcode" ->
            buildSignature(request.signedMethod, request.signedUrl,
                           buildParameterString(request.params), env.SECRET)
      [] env.rev = "p000a" ->
            buildSignature_p000(request.signedMethod, request.signedUrl, request.params, env.SECRET)
      [] env.rev = "p000b" ->
            makeSignature(request.signedMethod, request.signedUrl, request.params,
                          OrDefault(env.SECRET, HardcodedSecret))
      [] env.rev = "p001" ->
            generateOAuthSignature(request.signedMethod, request.signedUrl, request.params,
                                   OrDefault(env.SECRET, HardcodedSecret))
      [] env.rev = "p002" ->
            buildSignature_p002(request.signedMethod, request.signedUrl,
                                buildParameterString_p002(request.params), env.SECRET)

WireSignature(e) ==
    PairValue(WirePairs(e)[CHOOSE i \in 1..Len(WirePairs(e)) :
                               PairKey(WirePairs(e)[i]) = S_oauth_signature])

\* C13: in every outbound request the base64 signature is transmitted
\* percent-encoded by the RFC 3986 rules: "+", "/" and "=" never stand raw
\* in the oauth_signature value.
C13_SignatureEncodedOnTheWire ==
    \A e \in Logged :
        /\ WireSignature(e) = Rfc3986Encode(Entry(e).request.sig.signature)
        /\ \A i \in 1..Len(WireSignature(e)) : WireSignature(e)[i] \notin { "+", "/", "=" }

\* a transmitted signature whose base64 text holds "+" or "/" besides "="
C13_Witness ==
    \E e \in Logged :
        /\ Contains(Entry(e).request.sig.signature, "=")
        /\ Contains(Entry(e).request.sig.signature, "+") \/ Contains(Entry(e).request.sig.signature, "/")

----------------------------------------------------------------------------
(* The rate limiters of barcode.js and kroger.js, on a sequence of requests *)
(* one process handles (specification SpecRate).  The requests carry no     *)
(* ?code= / ?action=, so a request that is let through is answered 400      *)
(* before any await.                                                        *)

KROGER_RATE_LIMIT_WINDOW_MS == 60 * 1000
KROGER_RATE_LIMIT_MAX_REQUESTS == 200

\* kroger.js cleanupCaches, on rateBuckets
kroger_cleanupCaches_rateBuckets(buckets, t) ==
    [ ip \in { i \in DOMAIN buckets : ~(t >= buckets[i].resetAt + KROGER_RATE_LIMIT_WINDOW_MS) }
        |-> buckets[ip] ]

\* kroger.js checkRateLimit: the buckets after the call
kroger_checkRateLimit_buckets(buckets, ip, t) ==
    LET bucket == IF ip \notin DOMAIN buckets \/ t >= buckets[ip].resetAt
                  THEN [ count |-> 0, resetAt |-> t + KROGER_RATE_LIMIT_WINDOW_MS ]
                  ELSE buckets[ip]
    IN  [ i \in DOMAIN buckets \cup { ip } |->
            IF i = ip THEN [ bucket EXCEPT !.count = @ + 1 ] ELSE buckets[i] ]

\* kroger.js checkRateLimit: allowed
kroger_checkRateLimit_allowed(buckets, ip, t) ==
    kroger_checkRateLimit_buckets(buckets, ip, t)[ip].count <= KROGER_RATE_LIMIT_MAX_REQUESTS

\* barcode.js handler, lines 146-189, for a request without ?code=
BarcodeAnswer(method, ip) ==
    IF method = "OPTIONS" THEN 200
    ELSE IF method # "GET" THEN 405
    ELSE IF ~checkRateLimit_allowed(cleanupRateBuckets(rateBuckets, now), ip, now) THEN 429
    ELSE 400

\* kroger.js handler, lines 357-392 and 583, for a request without ?action=
KrogerAnswer(method, ip) ==
    IF method = "OPTIONS" THEN 200
    ELSE IF method # "GET" THEN 405
    ELSE IF ~kroger_checkRateLimit_allowed(
                 kroger_cleanupCaches_rateBuckets(krogerRateBuckets, now), ip, now) THEN 429
    ELSE 400

\* the 60-second windows of a client address as an observer counts them: a
\* window begins with the first GET request at or after the end of the one
\* before
WindowMs == 60 * 1000
Observed(ip) ==
    IF ip \in DOMAIN windows /\ now < windows[ip].since + WindowMs THEN windows[ip]
    ELSE [ since |-> now, passed |-> 0, refused |-> 0 ]
Observe(method, ip, answer) ==
    IF method # "GET" THEN windows
    ELSE [ i \in DOMAIN windows \cup { ip } |->
            IF i # ip THEN windows[i]
            ELSE IF answer = 429 THEN [ Observed(ip) EXCEPT !.refused = @ + 1 ]
            ELSE [ Observed(ip) EXCEPT !.passed = @ + 1 ] ]

Limit == IF handler = "barcode" THEN RATE_LIMIT_MAX_REQUESTS ELSE KROGER_RATE_LIMIT_MAX_REQUESTS

\* one client runs into the limit and MaxRefused requests beyond it; the
\* other client sends MaxOtherRequests requests per window
MaxRefused == 2
MaxOtherRequests == 3
BusyIp == "203.0.113.7"
RequestCap(ip) == IF ip = BusyIp THEN Limit + MaxRefused ELSE MaxOtherRequests

RateTickMs == 30000
MaxRateNow == 120000

InitRate ==
    /\ call = [ rev |-> "none" ]
    /\ result = NoResult
    /\ ProxyIdle
    /\ handler \in { "barcode", "kroger" }
    /\ krogerRateBuckets = << >>
    /\ windows = << >>
    /\ kroger = << >>
    /\ userApi = << >>
    /\ stripeApi = << >>

BarcodeRequest(method, ip) ==
    /\ handler = "barcode"
    /\ method = "GET" => Observed(ip).passed + Observed(ip).refused < RequestCap(ip)
    /\ rateBuckets' =
          IF method # "GET" THEN cleanupRateBuckets(rateBuckets, now)
          ELSE checkRateLimit_buckets(cleanupRateBuckets(rateBuckets, now), ip, now)
    /\ windows' = Observe(method, ip, BarcodeAnswer(method, ip))
    /\ UNCHANGED << lookupVars, now, handler, krogerRateBuckets, kroger, userApi, stripeApi >>

KrogerRequest(method, ip) ==
    /\ handler = "kroger"
    /\ method = "GET" => Observed(ip).passed + Observed(ip).refused < RequestCap(ip)
    /\ krogerRateBuckets' =
          IF method # "GET" THEN kroger_cleanupCaches_rateBuckets(krogerRateBuckets, now)
          ELSE kroger_checkRateLimit_buckets(
                   kroger_cleanupCaches_rateBuckets(krogerRateBuckets, now), ip, now)
    /\ windows' = Observe(method, ip, KrogerAnswer(method, ip))
    /\ UNCHANGED << lookupVars, now, rateBuckets, handler, kroger, userApi, stripeApi >>

RateTick ==
    /\ now + RateTickMs <= MaxRateNow
    /\ now' = now + RateTickMs
    /\ UNCHANGED << lookupVars, rateBuckets, limiterVars, kroger, userApi, stripeApi >>

RequestMethods == { "GET", "OPTIONS", "POST" }

NextRate ==
    \/ \E method \in RequestMethods, ip \in Ips : BarcodeRequest(method, ip)
    \/ \E method \in RequestMethods, ip \in Ips : KrogerRequest(method, ip)
    \/ RateTick

SpecRate == InitRate /\ [][NextRate]_vars

\* C14: within one 60-second window of a client address at most
\* RATE_LIMIT_MAX_REQUESTS of its GET requests (30 in barcode.js, 200 in
\* kroger.js) are let through, and a request is answered 429 only when that
\* many were let through in the window.
C14_RateLimitPerWindow ==
    \A ip \in DOMAIN windows :
        /\ windows[ip].passed <= Limit
        /\ windows[ip].refused > 0 => windows[ip].passed = Limit

\* the kroger.js limiter refused a client after 200 requests in a window,
\* and a later window of that client began
C14_Witness ==
    /\ handler = "kroger" /\ BusyIp \in DOMAIN windows
    /\ windows[BusyIp].passed = KROGER_RATE_LIMIT_MAX_REQUESTS
    /\ windows[BusyIp].refused >= 1
    /\ \E ip \in DOMAIN windows : ip # BusyIp /\ windows[ip].since > 0


\* ---------------------------------------------------------------------------
\* src/api/kroger.js: the token cache, the response cache and the handler.
\* kroger is one record: the module's variables (cachedToken, tokenExpiresAt,
\* responseCache), the environment (credentials), the locals of each handler
\* invocation (inv), and two observations: did, what the last step did in order, and after401,
\* raised by a 401 answer until getKrogerToken is next called.
\* NoToken is the module's null, Token the access token of an auth reply.

NoToken == "null"

Token == "access-token"

CACHE_TTL_MS == 5 * 60 * 1000

DefaultExpiresIn == 1800

KrogerInvocations == { 1, 2 }

KrogerIp == "198.51.100.9"

IdleInvocation == [ pc |-> "idle", stage |-> "none", started |-> 0, status |-> 0 ]

Did(k, op, t, aux) ==
    [ k EXCEPT !.did = Append(@, [ op |-> op, at |-> t, token |-> k.cachedToken,
                                  expiresAt |-> k.tokenExpiresAt,
                                  after401 |-> k.after401, aux |-> aux ]) ]

\* res.status(code).json(...): the invocation is over.
kroger_respond(k, h, code) ==
    [ k EXCEPT !.inv[h] = [ pc |-> "done", stage |-> "none", started |-> 0, status |-> code ] ]

\* An error thrown inside the handler: the debug action catches it step by
\* step and still answers 200, every other action answers 500.
kroger_catch(k, h) ==
    kroger_respond(k, h, IF k.inv[h].stage \in { "debug2", "debug3", "debug4" } THEN 200 ELSE 500)

getCacheKey(stage) ==
    CASE stage = "locations" -> "locations:25"
      [] stage = "debug3" -> "locations:15"
      [] stage = "products" -> "products:"
      [] OTHER -> "products:nearest"

getCached_fresh_always(k, key, t) == key \in DOMAIN k.responseCache

getCached_fresh(k, key, t) ==
    key \in DOMAIN k.responseCache /\ t < k.responseCache[key].expiresAt

getCached_deleted(k, key) ==
    [ k EXCEPT !.responseCache = [ x \in (DOMAIN @) \ { key } |-> @[x] ] ]

setCache(k, key, data, t) ==
    [ k EXCEPT !.responseCache = (key :> [ data |-> data, expiresAt |-> t + CACHE_TTL_MS ]) @@ @ ]

kroger_cleanupCaches_responseCache(k, t) ==
    [ k EXCEPT !.responseCache = [ x \in { y \in DOMAIN @ : ~(t >= @[y].expiresAt) } |-> @[x] ] ]

\* krogerFetch after its token: the request to the Kroger API goes out.
krogerFetch_send(k, h, t) ==
    [ Did(k, "api.send", t, k.inv[h].stage) EXCEPT !.inv[h].pc = "api" ]

getKrogerToken_usable_noBuffer(k, t) ==
    k.cachedToken # NoToken /\ t < k.tokenExpiresAt

getKrogerToken_usable(k, t) ==
    k.cachedToken # NoToken /\ t < k.tokenExpiresAt - 60000

\* getKrogerToken up to its first await, for the callers that go on to
\* krogerFetch or (health) to the answer.
getKrogerToken_called(k, h, t) ==
    IF getKrogerToken_usable(k, t)
    THEN IF k.inv[h].stage = "health"
         THEN kroger_respond(Did(k, "token.hit", t, h), h, 200)
         ELSE krogerFetch_send(Did(k, "token.hit", t, h), h, t)
    ELSE IF ~k.credentials
         THEN kroger_catch(Did(k, "token.throw", t, h), h)
         ELSE [ Did(k, "token.auth", t, h) EXCEPT !.inv[h].pc = "auth", !.inv[h].started = t ]

getKrogerToken(k, h, t) ==
    [ getKrogerToken_called(k, h, t) EXCEPT !.after401 = FALSE ]

searchProducts(k, h, t) ==
    IF getCached_fresh(k, getCacheKey(k.inv[h].stage), t)
    THEN kroger_respond(Did(k, "cache.hit", t, k.responseCache[getCacheKey(k.inv[h].stage)]), h, 200)
    ELSE getKrogerToken(getCached_deleted(Did(k, "cache.miss", t, [ key |-> getCacheKey(k.inv[h].stage),
                                    expired |-> getCacheKey(k.inv[h].stage) \in DOMAIN k.responseCache ]),
                                          getCacheKey(k.inv[h].stage)), h, t)

\* What the handler does with the locations it got: the debug action goes
\* on to search products at the nearest location if there is one.
kroger_located(k, h, data, t) ==
    IF k.inv[h].stage = "debug3" /\ data.found
    THEN searchProducts([ k EXCEPT !.inv[h].stage = "debug4" ], h, t)
    ELSE kroger_respond(k, h, 200)

searchLocations(k, h, t) ==
    IF getCached_fresh(k, getCacheKey(k.inv[h].stage), t)
    THEN kroger_located(Did(k, "cache.hit", t, k.responseCache[getCacheKey(k.inv[h].stage)]), h,
                        k.responseCache[getCacheKey(k.inv[h].stage)].data, t)
    ELSE getKrogerToken(getCached_deleted(Did(k, "cache.miss", t, [ key |-> getCacheKey(k.inv[h].stage),
                                    expired |-> getCacheKey(k.inv[h].stage) \in DOMAIN k.responseCache ]),
                                          getCacheKey(k.inv[h].stage)), h, t)

\* getKrogerToken after the auth endpoint answered.
getKrogerToken_stored(k, h, reply) ==
    [ k EXCEPT !.cachedToken = Token,
               !.tokenExpiresAt = k.inv[h].started
                   + (IF reply.expires_in <= 0 THEN DefaultExpiresIn ELSE reply.expires_in) * 1000 ]

getKrogerToken_returned(k, h, t) ==
    CASE k.inv[h].stage = "health" -> kroger_respond(k, h, 200)
      [] k.inv[h].stage = "debug2" -> searchLocations([ k EXCEPT !.inv[h].stage = "debug3" ], h, t)
      [] OTHER -> krogerFetch_send(k, h, t)

getKrogerToken_resumed(k, h, reply, t) ==
    IF ~reply.ok \/ ~reply.json \/ ~reply.access_token
    THEN kroger_catch(Did(k, "token.failed", t, h), h)
    ELSE getKrogerToken_returned(
             Did(Did(getKrogerToken_stored(k, h, reply), "token.stored", k.inv[h].started, reply.expires_in),
                 "token.fresh", t, h), h, t)

krogerFetch_cleared_never(k, code) == k

krogerFetch_cleared(k, code) ==
    IF code = 401
    THEN [ k EXCEPT !.cachedToken = NoToken, !.tokenExpiresAt = 0, !.after401 = TRUE ]
    ELSE k

krogerFetch_returned(k, h, data, t) ==
    IF k.inv[h].stage \in { "locations", "debug3" }
    THEN kroger_located(k, h, data, t)
    ELSE kroger_respond(k, h, 200)

\* krogerFetch and its caller after the Kroger API answered.
krogerFetch_resumed(k, h, reply, t) ==
    IF reply.status # 200
    THEN kroger_catch(krogerFetch_cleared(Did(k, "api.refused", t, [ status |-> reply.status, h |-> h, stage |-> k.inv[h].stage ]), reply.status), h)
    ELSE IF ~reply.json
    THEN kroger_catch(Did(k, "api.failed", t, h), h)
    ELSE krogerFetch_returned(
             setCache(Did(k, "api.answered", t, h), getCacheKey(k.inv[h].stage),
                      [ found |-> reply.found, fetchedAt |-> t ], t),
             h, [ found |-> reply.found, fetchedAt |-> t ], t)

kroger_handler(k, h, method, action, allowed, t) ==
    CASE method = "OPTIONS" -> kroger_respond(k, h, 200)
      [] method # "OPTIONS" /\ method # "GET" -> kroger_respond(k, h, 405)
      [] method = "GET" /\ ~allowed -> kroger_respond(k, h, 429)
      [] method = "GET" /\ allowed /\ action = "debug" ->
            getKrogerToken([ k EXCEPT !.cachedToken = NoToken, !.tokenExpiresAt = 0,
                                      !.inv[h].stage = "debug2" ], h, t)
      [] method = "GET" /\ allowed /\ action = "health" ->
            getKrogerToken([ k EXCEPT !.inv[h].stage = "health" ], h, t)
      [] method = "GET" /\ allowed /\ action = "locations" ->
            searchLocations([ k EXCEPT !.inv[h].stage = "locations" ], h, t)
      [] method = "GET" /\ allowed /\ action = "products" ->
            searchProducts([ k EXCEPT !.inv[h].stage = "products" ], h, t)
      [] OTHER -> kroger_respond(k, h, 400)

\* The steps of the Kroger specification.  Every step starts a new account
\* of what it did.
\* The instants the clock is read at: the start, the end of the life of a
\* response cached at the start (CACHE_TTL_MS), the instant a default token
\* fetched at the start stops being usable (1800 s less 60 s), and one
\* cache life later.
KrogerInstants == { 0, CACHE_TTL_MS, DefaultExpiresIn * 1000 - 60000,
                    DefaultExpiresIn * 1000 - 60000 + CACHE_TTL_MS }

KrogerActions == { "debug", "health", "locations", "products", "unknown" }

AuthReplies ==
    { [ ok |-> FALSE, json |-> TRUE, access_token |-> FALSE, expires_in |-> -1 ],
      [ ok |-> TRUE, json |-> FALSE, access_token |-> FALSE, expires_in |-> -1 ],
      [ ok |-> TRUE, json |-> TRUE, access_token |-> FALSE, expires_in |-> -1 ] }
    \cup { [ ok |-> TRUE, json |-> TRUE, access_token |-> TRUE, expires_in |-> e ] : e \in { -1, 30 } }

ApiReplies ==
    { [ status |-> 200, json |-> TRUE, found |-> TRUE ],
      [ status |-> 200, json |-> TRUE, found |-> FALSE ],
      [ status |-> 200, json |-> FALSE, found |-> FALSE ],
      [ status |-> 401, json |-> TRUE, found |-> FALSE ],
      [ status |-> 500, json |-> TRUE, found |-> FALSE ] }

InitKroger ==
    /\ call = [ rev |-> "none" ]
    /\ result = NoResult
    /\ ProxyIdle
    /\ LimiterIdle
    /\ userApi = << >>
    /\ stripeApi = << >>
    /\ \E credentials \in BOOLEAN :
          kroger = [ cachedToken |-> NoToken, tokenExpiresAt |-> 0, responseCache |-> << >>,
                     credentials |-> credentials, after401 |-> FALSE,
                     inv |-> [ h \in KrogerInvocations |-> IdleInvocation ], did |-> << >> ]

KrogerArrive(h, method, action) ==
    /\ kroger.inv[h].pc = "idle"
    /\ \A g \in KrogerInvocations : g < h => kroger.inv[g].pc # "idle"
    /\ krogerRateBuckets' =
          IF method # "GET" THEN kroger_cleanupCaches_rateBuckets(krogerRateBuckets, now)
          ELSE kroger_checkRateLimit_buckets(
                   kroger_cleanupCaches_rateBuckets(krogerRateBuckets, now), KrogerIp, now)
    /\ kroger' = kroger_handler(
                     kroger_cleanupCaches_responseCache([ kroger EXCEPT !.did = << >> ], now),
                     h, method, action,
                     kroger_checkRateLimit_allowed(
                         kroger_cleanupCaches_rateBuckets(krogerRateBuckets, now), KrogerIp, now),
                     now)
    /\ UNCHANGED << lookupVars, now, rateBuckets, handler, windows, userApi, stripeApi >>

KrogerAuthReply(h, reply) ==
    /\ kroger.inv[h].pc = "auth"
    /\ kroger' = getKrogerToken_resumed([ kroger EXCEPT !.did = << >> ], h, reply, now)
    /\ UNCHANGED << lookupVars, now, rateBuckets, limiterVars, userApi, stripeApi >>

KrogerApiReply(h, reply) ==
    /\ kroger.inv[h].pc = "api"
    /\ kroger' = krogerFetch_resumed([ kroger EXCEPT !.did = << >> ], h, reply, now)
    /\ UNCHANGED << lookupVars, now, rateBuckets, limiterVars, userApi, stripeApi >>

KrogerTick(t) ==
    /\ now < t
    /\ now' = t
    /\ kroger' = [ kroger EXCEPT !.did = << >> ]
    /\ UNCHANGED << lookupVars, rateBuckets, limiterVars, userApi, stripeApi >>

NextKroger ==
    \/ \E h \in KrogerInvocations, method \in RequestMethods, action \in KrogerActions :
          KrogerArrive(h, method, action)
    \/ \E h \in KrogerInvocations, reply \in AuthReplies : KrogerAuthReply(h, reply)
    \/ \E h \in KrogerInvocations, reply \in ApiReplies : KrogerApiReply(h, reply)
    \/ \E t \in KrogerInstants : KrogerTick(t)

SpecKroger == InitKroger /\ [][NextKroger]_vars


\* What the last step did, as a set.
Events == { kroger.did[i] : i \in DOMAIN kroger.did }

Usable(ev) == ev.token # NoToken /\ ev.at < ev.expiresAt - 60000

\* C15 (as amended): getKrogerToken returns the cached token without
\* contacting the auth endpoint exactly when a token is cached and
\* now < tokenExpiresAt - 60000; otherwise it requests a new token (or, the
\* credentials missing, throws) and on success stores it with
\* tokenExpiresAt = start of the call + expires_in seconds, 1800 when
\* expires_in is absent.  So a token returned from the cache is never within
\* 60 s of its recorded expiry.
C15_TokenCacheBuffer ==
    \A ev \in Events :
        /\ ev.op = "token.hit" => Usable(ev)
        /\ ev.op = "token.auth" => ~Usable(ev) /\ kroger.credentials
        /\ ev.op = "token.throw" => ~Usable(ev) /\ ~kroger.credentials
        /\ ev.op = "token.stored" =>
              /\ ev.token = Token
              /\ ev.expiresAt = ev.at + (IF ev.aux = -1 THEN 1800 ELSE ev.aux) * 1000

\* a step in which a token with 30 s to live was stored and the call that
\* followed found it inside the buffer and asked for another
C15_Witness ==
    /\ \E ev \in Events : ev.op = "token.stored" /\ ev.aux = 30
    /\ \E ev \in Events : ev.op = "token.auth" /\ ev.token = Token /\ ev.at < ev.expiresAt

\* C15 (as stated): in addition, no token at all, cached or just fetched, is
\* handed out within 60 s of its recorded expiry.
C15_NoTokenNearExpiry ==
    /\ C15_TokenCacheBuffer
    /\ \A ev \in Events : ev.op \in { "token.hit", "token.fresh" } => ev.at < ev.expiresAt - 60000

\* C19: getCached never returns an entry at or after its expiresAt, which is
\* the time it was stored plus CACHE_TTL_MS; an expired entry found on lookup
\* is deleted and the lookup is a miss; so data served from the cache is
\* never older than CACHE_TTL_MS.
C19_ResponseCacheTtl ==
    /\ \A key \in DOMAIN kroger.responseCache :
          kroger.responseCache[key].expiresAt = kroger.responseCache[key].data.fetchedAt + CACHE_TTL_MS
    /\ \A ev \in Events :
          /\ ev.op = "cache.hit" =>
                /\ ev.at < ev.aux.expiresAt
                /\ ev.at - ev.aux.data.fetchedAt < CACHE_TTL_MS
          /\ ev.op = "cache.miss" => ev.aux.key \notin DOMAIN kroger.responseCache

\* a lookup that found an expired entry
C19_Witness ==
    \E ev \in Events : ev.op = "cache.miss" /\ ev.aux.expired /\ ev.at >= CACHE_TTL_MS

\* C20, its first and last sentence: a 401 from the Kroger API clears the
\* token cache and fails the request (the handler answers 500, the debug
\* action reports the failure with 200); any other refusal leaves the token
\* cache as it was.
C20_Refused ==
    \A ev \in Events : ev.op = "api.refused" =>
        /\ kroger.inv[ev.aux.h].pc = "done"
        /\ kroger.inv[ev.aux.h].status =
              IF ev.aux.stage \in { "debug3", "debug4" } THEN 200 ELSE 500
        /\ IF ev.aux.status = 401
           THEN kroger.cachedToken = NoToken /\ kroger.tokenExpiresAt = 0
           ELSE kroger.cachedToken = ev.token /\ kroger.tokenExpiresAt = ev.expiresAt

UserInvocations == { 1, 2 }

UserMethods == { "GET", "POST", "DELETE", "OPTIONS" }

UserActions == { "profile", "scan", "history", "favorite", "favorites", "unknown" }

\* the Authorization header: none, one of another scheme, a bearer token
UserHeaders == { "absent", "Basic dXNlcg==", "Bearer jwt" }

UserRequests ==
    [ method : UserMethods, action : UserActions, header : UserHeaders,
      barcode : BOOLEAN, productName : BOOLEAN ]

NoUserRequest ==
    [ method |-> "none", action |-> "none", header |-> "absent",
      barcode |-> FALSE, productName |-> FALSE ]

UserIdle ==
    [ pc |-> "idle", req |-> NoUserRequest, auth |-> "none", tier |-> "unknown",
      status |-> 0, issued |-> { } ]

user_respond(u, code) == [ u EXCEPT !.pc = "done", !.status = code ]

user_fetch(u, request, awaiting) == [ u EXCEPT !.pc = awaiting, !.issued = @ \cup { request } ]

startsWithBearer(header) ==
    Len(header) >= 7 /\ SubSeq(header, 1, 7) = "Bearer "

\* verifyAuth up to its fetch: null without a bearer header
verifyAuth_called(u) ==
    IF u.req.header = "absent" \/ ~startsWithBearer(u.req.header)
    THEN user_respond(u, 401)
    ELSE user_fetch(u, "auth/v1/user", "auth")

verifyAuth_user_anyReply(reply) == TRUE

\* verifyAuth after its fetch: the user if the response is ok and has an id
verifyAuth_user(reply) == reply = "user"

\* the handler from its try to the first await of the action
user_dispatch(u) ==
    CASE u.req.action = "profile" /\ u.req.method = "GET" ->
            user_fetch(u, "rpc/get_user_profile", "rpc")
      [] u.req.action = "scan" /\ u.req.method = "POST" ->
            IF ~u.req.barcode THEN user_respond(u, 400)
            ELSE user_fetch(u, "rpc/increment_scan_count", "rpc")
      [] u.req.action = "history" /\ u.req.method = "GET" ->
            user_fetch(u, "rpc/get_user_profile", "rpc")
      [] u.req.action = "favorite" /\ u.req.method = "POST" ->
            user_fetch(u, "rpc/get_user_profile", "rpc")
      [] u.req.action = "favorite" /\ u.req.method = "DELETE" ->
            IF ~u.req.barcode THEN user_respond(u, 400)
            ELSE user_fetch(u, "DELETE favorites", "query")
      [] u.req.action = "favorites" /\ u.req.method = "GET" ->
            user_fetch(u, "rpc/get_user_profile", "rpc")
      [] OTHER -> user_respond(u, 400)

user_authenticated(u, reply) ==
    IF reply = "threw" THEN [ u EXCEPT !.pc = "rejected", !.auth = reply ]
    ELSE IF ~verifyAuth_user(reply) THEN user_respond([ u EXCEPT !.auth = reply ], 401)
    ELSE user_dispatch([ u EXCEPT !.auth = reply ])

notPro_never(profile) == FALSE

\* profile?.tier !== 'pro'
notPro(profile) == profile.tier # "pro"

\* the handler after supabaseRpc returned
user_rpcReturned(u, reply) ==
    CASE u.req.action = "profile" ->
            IF reply.error THEN user_respond(u, 404) ELSE user_respond(u, 200)
      [] u.req.action = "scan" ->
            IF ~reply.allowed THEN user_respond(u, 429)
            ELSE IF u.req.productName THEN user_fetch(u, "POST scan_history", "query")
            ELSE user_respond(u, 200)
      [] u.req.action = "history" ->
            IF notPro(reply) THEN user_respond([ u EXCEPT !.tier = reply.tier ], 403)
            ELSE user_fetch([ u EXCEPT !.tier = reply.tier ], "GET scan_history", "query")
      [] u.req.action = "favorite" ->
            IF notPro(reply) THEN user_respond([ u EXCEPT !.tier = reply.tier ], 403)
            ELSE IF ~u.req.barcode \/ ~u.req.productName
                 THEN user_respond([ u EXCEPT !.tier = reply.tier ], 400)
                 ELSE user_fetch([ u EXCEPT !.tier = reply.tier ], "POST favorites", "query")
      [] OTHER ->
            IF notPro(reply) THEN user_respond([ u EXCEPT !.tier = reply.tier ], 403)
            ELSE user_fetch([ u EXCEPT !.tier = reply.tier ], "GET favorites", "query")

\* what the auth service makes of the token: a user with an id, a body
\* without an id, a refusal, or no answer at all
UserAuthReplies == { "user", "no id", "refused", "threw" }

\* what an RPC returns: a profile of tier pro or free with the scan allowed
\* or not, or an error object
UserRpcReplies ==
    { [ tier |-> "pro", allowed |-> TRUE, error |-> FALSE ],
      [ tier |-> "free", allowed |-> TRUE, error |-> FALSE ],
      [ tier |-> "free", allowed |-> FALSE, error |-> FALSE ],
      [ tier |-> "undefined", allowed |-> FALSE, error |-> TRUE ] }

InitUser ==
    /\ call = [ rev |-> "none" ]
    /\ result = NoResult
    /\ ProxyIdle
    /\ LimiterIdle
    /\ kroger = << >>
    /\ userApi = [ h \in UserInvocations |-> UserIdle ]
    /\ stripeApi = << >>

userRest == << lookupVars, now, rateBuckets, limiterVars, kroger, stripeApi >>

UserArrive(h, req) ==
    /\ userApi[h].pc = "idle"
    /\ \A g \in UserInvocations : g < h => userApi[g].pc # "idle"
    /\ userApi' = [ userApi EXCEPT ![h] =
                      IF req.method = "OPTIONS"
                      THEN user_respond([ @ EXCEPT !.req = req ], 200)
                      ELSE verifyAuth_called([ @ EXCEPT !.req = req ]) ]
    /\ UNCHANGED userRest

UserAuthReply(h, reply) ==
    /\ userApi[h].pc = "auth"
    /\ userApi' = [ userApi EXCEPT ![h] = user_authenticated(@, reply) ]
    /\ UNCHANGED userRest

UserRpcReply(h, reply) ==
    /\ userApi[h].pc = "rpc"
    /\ userApi' = [ userApi EXCEPT ![h] = user_rpcReturned(@, reply) ]
    /\ UNCHANGED userRest

\* fetch rejected inside the try: the catch answers 500
UserFetchThrows(h) ==
    /\ userApi[h].pc \in { "rpc", "query" }
    /\ userApi' = [ userApi EXCEPT ![h] = user_respond(@, 500) ]
    /\ UNCHANGED userRest

UserQueryReply(h) ==
    /\ userApi[h].pc = "query"
    /\ userApi' = [ userApi EXCEPT ![h] = user_respond(@, 200) ]
    /\ UNCHANGED userRest

NextUser ==
    \/ \E h \in UserInvocations, req \in UserRequests : UserArrive(h, req)
    \/ \E h \in UserInvocations, reply \in UserAuthReplies : UserAuthReply(h, reply)
    \/ \E h \in UserInvocations, reply \in UserRpcReplies : UserRpcReply(h, reply)
    \/ \E h \in UserInvocations : UserFetchThrows(h)
    \/ \E h \in UserInvocations : UserQueryReply(h)

SpecUser == InitUser /\ [][NextUser]_vars

DataRequests ==
    { "rpc/get_user_profile", "rpc/increment_scan_count", "GET scan_history", "POST scan_history",
      "GET favorites", "POST favorites", "DELETE favorites" }

\* C16: a non-OPTIONS request to /api/user issues no Supabase data query or
\* RPC unless verifyAuth returned a user with an id, which takes a header
\* starting with 'Bearer ' and a token the auth service accepts; without the
\* header, with another scheme, or with a rejected token the answer is 401.
C16_AuthenticationRequired ==
    \A h \in UserInvocations :
        /\ userApi[h].issued \cap DataRequests # { } =>
              /\ startsWithBearer(userApi[h].req.header)
              /\ userApi[h].auth = "user"
        /\ ( /\ userApi[h].req.method \notin { "none", "OPTIONS" }
             /\ \/ ~startsWithBearer(userApi[h].req.header)
                \/ userApi[h].auth \in { "refused", "no id" } )
              => /\ userApi[h].pc = "done"
                 /\ userApi[h].status = 401
                 /\ userApi[h].issued \cap DataRequests = { }

\* one invocation turned away for a rejected token while another, accepted,
\* has written to scan_history
C16_Witness ==
    /\ userApi[1].auth = "refused" /\ userApi[1].status = 401
    /\ userApi[2].auth = "user" /\ "POST scan_history" \in userApi[2].issued

ProOnly(req) ==
    \/ req.action = "history" /\ req.method = "GET"
    \/ req.action = "favorite" /\ req.method = "POST"
    \/ req.action = "favorites" /\ req.method = "GET"

TableRequests ==
    { "GET scan_history", "POST scan_history", "GET favorites", "POST favorites", "DELETE favorites" }

\* C17: for an authenticated user whose profile tier is not 'pro', GET
\* action=history, POST action=favorite and GET action=favorites answer 403
\* and neither read nor write scan_history or favorites.
C17_ProOnly ==
    \A h \in UserInvocations :
        (ProOnly(userApi[h].req) /\ userApi[h].auth = "user" /\ userApi[h].tier \notin { "unknown", "pro" })
            => /\ userApi[h].pc = "done"
               /\ userApi[h].status = 403
               /\ userApi[h].issued \cap TableRequests = { }

\* a free user refused the favorites while a pro user reads them
C17_Witness ==
    /\ userApi[1].req.action = "favorites" /\ userApi[1].tier = "free" /\ userApi[1].status = 403
    /\ userApi[2].req.action = "favorites" /\ userApi[2].tier = "pro"
    /\ "GET favorites" \in userApi[2].issued


\* ---------------------------------------------------------------------------
\* src/api/stripe-webhook.js and src/unnamed/part_004 (/api/subscription).
\* stripeApi holds the environment, the one profile the Supabase table has
\* (id KnownUser), and the invocations of the two handlers.  An invocation
\* keeps its request, whether constructEvent returned an event for it
\* (verified), the PATCH it is waiting on and every PATCH it has sent.

StripeInvocations == { 1, 2 }

KnownUser == "user-1"

WebhookSecret == "whsec_live"

RawBody == "payload"

NoSignature == [ key |-> "", body |-> "" ]

\* the Stripe-Signature header: none, Stripe's own, one made for another
\* payload, one made with another secret
StripeSignatures ==
    { NoSignature,
      [ key |-> WebhookSecret, body |-> RawBody ],
      [ key |-> WebhookSecret, body |-> "another payload" ],
      [ key |-> "whsec_forged", body |-> RawBody ] }

\* stripe.webhooks.constructEvent(rawBody, sig, secret) returns the event if
\* sig was made over rawBody with secret, and throws otherwise.
constructEvent(rawBody, sig, secret) ==
    secret # "" /\ sig.key = secret /\ sig.body = rawBody

OtherEvent ==
    [ type |-> "customer.created", userId |-> "", customer |-> "cus_1",
      subscription |-> "", status |-> "" ]

StripeEvents ==
    { [ type |-> "checkout.session.completed", userId |-> u, customer |-> "cus_1",
        subscription |-> sub, status |-> "" ] : u \in { "", KnownUser }, sub \in { "", "sub_1" } }
    \cup { [ type |-> "customer.subscription.updated", userId |-> "", customer |-> c,
             subscription |-> "sub_1", status |-> st ] :
               c \in { "cus_1", "cus_unknown" }, st \in { "active", "trialing", "past_due" } }
    \cup { [ type |-> t, userId |-> "", customer |-> c, subscription |-> "sub_1", status |-> "" ] :
               t \in { "customer.subscription.deleted", "invoice.payment_failed" },
               c \in { "cus_1", "cus_unknown" } }
    \cup { OtherEvent }

StripeRequest(handlerName, method, action, sig, event, body) ==
    [ handler |-> handlerName, method |-> method, action |-> action, sig |-> sig,
      event |-> event, body |-> body ]

StripeRequests ==
    { StripeRequest("stripe-webhook", "GET", "", NoSignature, OtherEvent, "") }
    \cup { StripeRequest("stripe-webhook", "POST", "", sig, OtherEvent, "") : sig \in StripeSignatures }
    \cup { StripeRequest("subscription", m, "webhook", NoSignature, OtherEvent, "") : m \in { "OPTIONS", "GET" } }
    \cup { StripeRequest("subscription", "POST", "webhook", sig, event, "") :
               sig \in StripeSignatures, event \in StripeEvents }
    \cup { StripeRequest("subscription", "POST", "create-checkout", NoSignature, OtherEvent, b) :
               b \in { "complete", "no userId", "no period" } }
    \cup { StripeRequest("subscription", "POST", "create-portal", NoSignature, OtherEvent, b) :
               b \in { "complete", "no stripeCustomerId" } }
    \cup { StripeRequest("subscription", "POST", "unknown", NoSignature, OtherEvent, "") }

NoStripeRequest == StripeRequest("none", "none", "", NoSignature, OtherEvent, "")

StripeIdle ==
    [ pc |-> "idle", req |-> NoStripeRequest, status |-> 0, verified |-> FALSE,
      target |-> "", patch |-> << >>, updates |-> << >> ]

PeriodEnd == "2030-01-01T00:00:00.000Z"

StripeProfiles ==
    { [ tier |-> "free", stripe_customer_id |-> "null", stripe_subscription_id |-> "null",
        subscription_status |-> "null", subscription_period |-> "null",
        subscription_current_period_end |-> "null" ],
      [ tier |-> "free", stripe_customer_id |-> "cus_1", stripe_subscription_id |-> "null",
        subscription_status |-> "null", subscription_period |-> "null",
        subscription_current_period_end |-> "null" ],
      [ tier |-> "pro", stripe_customer_id |-> "cus_1", stripe_subscription_id |-> "sub_1",
        subscription_status |-> "active", subscription_period |-> "annual",
        subscription_current_period_end |-> PeriodEnd ] }

\* PATCH profiles?id=eq.<userId> with the given columns
Patch(profile, userId, updates) ==
    IF userId # KnownUser THEN profile
    ELSE [ f \in DOMAIN profile |-> IF f \in DOMAIN updates THEN updates[f] ELSE profile[f] ]

stripe_respond(s, h, code) ==
    [ s EXCEPT !.inv[h].pc = "done", !.inv[h].status = code ]

stripe_await(s, h, awaiting) == [ s EXCEPT !.inv[h].pc = awaiting ]

\* updateProfile up to its fetch
updateProfile(s, h, userId, updates) ==
    [ s EXCEPT !.inv[h].pc = "patch", !.inv[h].target = userId, !.inv[h].patch = updates,
               !.inv[h].updates = Append(@, [ id |-> userId, set |-> updates ]) ]

\* stripe-webhook.js, the handler to its await
stripeWebhook_called(s, h) ==
    IF s.inv[h].req.method # "POST" THEN stripe_respond(s, h, 405)
    ELSE IF s.env.STRIPE_SECRET_KEY = "" THEN stripe_respond(s, h, 500)
    ELSE IF s.env.STRIPE_WEBHOOK_SECRET = "" THEN stripe_respond(s, h, 500)
    ELSE stripe_await(s, h, "body")

\* stripe-webhook.js, the handler after readRawBody
stripeWebhook_bodyRead(s, h, read) ==
    IF ~read THEN stripe_respond(s, h, 400)
    ELSE IF s.inv[h].req.sig = NoSignature THEN stripe_respond(s, h, 400)
    ELSE IF ~constructEvent(RawBody, s.inv[h].req.sig, s.env.STRIPE_WEBHOOK_SECRET)
    THEN stripe_respond(s, h, 400)
    ELSE stripe_respond([ s EXCEPT !.inv[h].verified = TRUE ], h, 200)

\* part_004, the handler to its first await
subscription_called(s, h) ==
    CASE s.inv[h].req.method = "OPTIONS" -> stripe_respond(s, h, 200)
      [] s.inv[h].req.method \notin { "OPTIONS", "POST" } -> stripe_respond(s, h, 405)
      [] s.inv[h].req.method = "POST" /\ s.inv[h].req.action = "create-checkout" ->
            IF s.inv[h].req.body # "complete" THEN stripe_respond(s, h, 400)
            ELSE stripe_await(s, h, "findProfileById")
      [] s.inv[h].req.method = "POST" /\ s.inv[h].req.action = "create-portal" ->
            IF s.inv[h].req.body # "complete" THEN stripe_respond(s, h, 400)
            ELSE stripe_await(s, h, "stripe")
      [] s.inv[h].req.method = "POST" /\ s.inv[h].req.action = "webhook" ->
            stripe_await(s, h, "body")
      [] OTHER -> stripe_respond(s, h, 400)

\* part_004, the webhook branch once the event is in hand
subscription_event(s, h, event) ==
    CASE event.type = "checkout.session.completed" ->
            IF event.userId # "" /\ event.subscription # ""
            THEN stripe_await(s, h, "retrieve")
            ELSE stripe_respond(s, h, 200)
      [] event.type \in { "customer.subscription.updated", "customer.subscription.deleted",
                          "invoice.payment_failed" } ->
            stripe_await(s, h, "findProfileByStripeCustomer")
      [] OTHER -> stripe_respond(s, h, 200)

subscription_verified_unchecked(s, h) == TRUE

\* part_004, the try around constructEvent
subscription_verified(s, h) ==
    constructEvent(RawBody, s.inv[h].req.sig, s.env.STRIPE_WEBHOOK_SECRET)

\* part_004, the webhook branch after getRawBody
subscription_bodyRead(s, h) ==
    IF ~subscription_verified(s, h) THEN stripe_respond(s, h, 400)
    ELSE subscription_event(
             [ s EXCEPT !.inv[h].verified = constructEvent(RawBody, s.inv[h].req.sig,
                                                           s.env.STRIPE_WEBHOOK_SECRET) ],
             h, s.inv[h].req.event)

\* part_004, checkout.session.completed after stripe.subscriptions.retrieve
subscription_retrieved(s, h, period) ==
    updateProfile(s, h, s.inv[h].req.event.userId,
        [ tier |-> "pro",
          stripe_customer_id |-> s.inv[h].req.event.customer,
          stripe_subscription_id |-> s.inv[h].req.event.subscription,
          subscription_status |-> "active",
          subscription_period |-> IF period = "" THEN "monthly" ELSE period,
          subscription_current_period_end |-> PeriodEnd ])

subscription_updates_alwaysPro(event) ==
    [ tier |-> "pro", subscription_status |-> "active" ]

\* part_004, the update each of the three customer events makes
subscription_updates(event) ==
    CASE event.type = "customer.subscription.updated" ->
            [ tier |-> IF event.status \in { "active", "trialing" } THEN "pro" ELSE "free",
              subscription_status |-> event.status,
              subscription_current_period_end |-> PeriodEnd ]
      [] event.type = "customer.subscription.deleted" ->
            [ tier |-> "free", subscription_status |-> "canceled",
              stripe_subscription_id |-> "null", subscription_period |-> "null",
              subscription_current_period_end |-> "null" ]
      [] OTHER -> [ subscription_status |-> "past_due" ]

\* part_004, after findProfileByStripeCustomer
subscription_found(s, h, ok) ==
    IF ok /\ s.profile.stripe_customer_id = s.inv[h].req.event.customer
    THEN updateProfile(s, h, KnownUser, subscription_updates(s.inv[h].req.event))
    ELSE stripe_respond(s, h, 200)

\* part_004, create-checkout after findProfileById
subscription_foundById(s, h, ok) ==
    IF ok /\ s.profile.stripe_customer_id # "null"
    THEN stripe_await(s, h, "stripe")
    ELSE stripe_await(s, h, "customers.create")

\* updateProfile after its fetch, and the handler after updateProfile
subscription_patched(s, h, ok) ==
    IF ~ok THEN stripe_respond(s, h, 500)
    ELSE IF s.inv[h].req.action = "webhook"
    THEN stripe_respond([ s EXCEPT !.profile = Patch(@, s.inv[h].target, s.inv[h].patch) ], h, 200)
    ELSE stripe_await([ s EXCEPT !.profile = Patch(@, s.inv[h].target, s.inv[h].patch) ], h, "stripe")

InitStripe ==
    /\ call = [ rev |-> "none" ]
    /\ result = NoResult
    /\ ProxyIdle
    /\ LimiterIdle
    /\ kroger = << >>
    /\ userApi = << >>
    /\ \E key \in { "", "sk_live" }, secret \in { "", WebhookSecret }, profile \in StripeProfiles :
          stripeApi = [ env |-> [ STRIPE_SECRET_KEY |-> key, STRIPE_WEBHOOK_SECRET |-> secret ],
                        profile |-> profile,
                        inv |-> [ h \in StripeInvocations |-> StripeIdle ] ]

stripeRest == << lookupVars, now, rateBuckets, limiterVars, kroger, userApi >>

StripeArrive(h, req) ==
    /\ stripeApi.inv[h].pc = "idle"
    /\ \A g \in StripeInvocations : g < h => stripeApi.inv[g].pc # "idle"
    /\ stripeApi' = IF req.handler = "stripe-webhook"
                    THEN stripeWebhook_called([ stripeApi EXCEPT !.inv[h].req = req ], h)
                    ELSE subscription_called([ stripeApi EXCEPT !.inv[h].req = req ], h)
    /\ UNCHANGED stripeRest

\* readRawBody / getRawBody settles: the body is read, or the stream fails
StripeBodyRead(h, read) ==
    /\ stripeApi.inv[h].pc = "body"
    /\ stripeApi' = IF stripeApi.inv[h].req.handler = "stripe-webhook"
                    THEN stripeWebhook_bodyRead(stripeApi, h, read)
                    ELSE IF ~read THEN stripe_respond(stripeApi, h, 500)
                    ELSE subscription_bodyRead(stripeApi, h)
    /\ UNCHANGED stripeRest

SubscriptionRetrieved(h, period) ==
    /\ stripeApi.inv[h].pc = "retrieve"
    /\ stripeApi' = subscription_retrieved(stripeApi, h, period)
    /\ UNCHANGED stripeRest

SubscriptionFound(h, ok) ==
    /\ stripeApi.inv[h].pc \in { "findProfileByStripeCustomer", "findProfileById" }
    /\ stripeApi' = IF stripeApi.inv[h].pc = "findProfileById"
                    THEN subscription_foundById(stripeApi, h, ok)
                    ELSE subscription_found(stripeApi, h, ok)
    /\ UNCHANGED stripeRest

SubscriptionPatched(h, ok) ==
    /\ stripeApi.inv[h].pc = "patch"
    /\ stripeApi' = subscription_patched(stripeApi, h, ok)
    /\ UNCHANGED stripeRest

\* stripe.customers.create, checkout.sessions.create or
\* billingPortal.sessions.create returns
SubscriptionStripeReturned(h) ==
    /\ stripeApi.inv[h].pc \in { "customers.create", "stripe" }
    /\ stripeApi' = IF stripeApi.inv[h].pc = "customers.create"
                    THEN updateProfile(stripeApi, h, KnownUser, [ stripe_customer_id |-> "cus_new" ])
                    ELSE stripe_respond(stripeApi, h, 200)
    /\ UNCHANGED stripeRest

\* a call to Stripe or Supabase rejects inside the try: the catch answers 500
SubscriptionThrows(h) ==
    /\ stripeApi.inv[h].pc \in { "retrieve", "findProfileByStripeCustomer", "findProfileById",
                                 "patch", "customers.create", "stripe" }
    /\ stripeApi' = stripe_respond(stripeApi, h, 500)
    /\ UNCHANGED stripeRest

NextStripe ==
    \/ \E h \in StripeInvocations, req \in StripeRequests : StripeArrive(h, req)
    \/ \E h \in StripeInvocations, read \in BOOLEAN : StripeBodyRead(h, read)
    \/ \E h \in StripeInvocations, period \in { "", "monthly", "annual" } : SubscriptionRetrieved(h, period)
    \/ \E h \in StripeInvocations, ok \in BOOLEAN : SubscriptionFound(h, ok)
    \/ \E h \in StripeInvocations, ok \in BOOLEAN : SubscriptionPatched(h, ok)
    \/ \E h \in StripeInvocations : SubscriptionStripeReturned(h)
    \/ \E h \in StripeInvocations : SubscriptionThrows(h)

SpecStripe == InitStripe /\ [][NextStripe]_vars

\* the invocations that are deliveries of a webhook event
IsWebhook(req) ==
    \/ req.handler = "stripe-webhook" /\ req.method = "POST"
    \/ req.handler = "subscription" /\ req.method = "POST" /\ req.action = "webhook"

Genuine(req) ==
    /\ stripeApi.env.STRIPE_WEBHOOK_SECRET # ""
    /\ req.sig.key = stripeApi.env.STRIPE_WEBHOOK_SECRET
    /\ req.sig.body = RawBody

\* C18: in both webhook handlers an event is acknowledged with 200, and in
\* the subscription handler a profile update is made, only after
\* constructEvent succeeded on the raw body with the Stripe-Signature header
\* and the webhook secret; when the verification fails the answer is 400 and
\* no profile is modified.
C18_WebhookVerified ==
    \A h \in StripeInvocations : IsWebhook(stripeApi.inv[h].req) =>
        /\ (stripeApi.inv[h].status = 200 \/ stripeApi.inv[h].updates # << >>) =>
              /\ stripeApi.inv[h].verified
              /\ Genuine(stripeApi.inv[h].req)
        /\ ( /\ stripeApi.inv[h].pc \notin { "idle", "body" }
             /\ ~Genuine(stripeApi.inv[h].req)
             /\ stripeApi.inv[h].status # 500 )
              => /\ stripeApi.inv[h].status = 400
                 /\ stripeApi.inv[h].updates = << >>

\* the subscription handler has answered 400 to a delivery signed with
\* another secret and is updating the profile for a genuine one
C18_Witness ==
    /\ stripeApi.inv[1].req.handler = "subscription"
    /\ stripeApi.inv[1].req.sig.key = "whsec_forged"
    /\ stripeApi.inv[1].status = 400
    /\ stripeApi.inv[2].req.handler = "subscription"
    /\ stripeApi.inv[2].verified
    /\ stripeApi.inv[2].updates # << >>


\* Invocation h completes the PATCH of a webhook event in this step, and the
\* row it names exists.
Wrote(h) ==
    /\ stripeApi.inv[h].req.action = "webhook"
    /\ stripeApi.inv[h].pc = "patch"
    /\ stripeApi'.inv[h].pc = "done"
    /\ stripeApi'.inv[h].status = 200
    /\ stripeApi.inv[h].target = KnownUser

\* what the profile must be after the event has been written
WrittenAs(event, before, after) ==
    CASE event.type = "checkout.session.completed" ->
            /\ event.userId # "" /\ event.subscription # ""
            /\ after.tier = "pro" /\ after.subscription_status = "active"
      [] event.type = "customer.subscription.updated" ->
            after.tier = IF event.status \in { "active", "trialing" } THEN "pro" ELSE "free"
      [] event.type = "customer.subscription.deleted" ->
            /\ after.tier = "free" /\ after.subscription_status = "canceled"
            /\ after.stripe_subscription_id = "null"
            /\ after.subscription_period = "null"
            /\ after.subscription_current_period_end = "null"
      [] event.type = "invoice.payment_failed" ->
            /\ after.subscription_status = "past_due"
            /\ after.tier = before.tier
      [] OTHER -> FALSE

TierWritten ==
    \A h \in StripeInvocations : Wrote(h) =>
        /\ stripeApi.inv[h].verified
        /\ WrittenAs(stripeApi.inv[h].req.event, stripeApi.profile, stripeApi'.profile)

\* the lookup by customer finds nothing: the event is acknowledged and no
\* PATCH is sent for it
NotFoundChangesNothing ==
    \A h \in StripeInvocations :
        ( /\ stripeApi.inv[h].pc = "findProfileByStripeCustomer"
          /\ stripeApi'.inv[h].pc # "findProfileByStripeCustomer"
          /\ stripeApi.profile.stripe_customer_id # stripeApi.inv[h].req.event.customer )
            => /\ stripeApi'.inv[h].pc = "done"
               /\ stripeApi'.inv[h].updates = << >>
               /\ stripeApi'.profile = stripeApi.profile

\* no event whose customer is on no profile when it is written changes the
\* profile
UnknownCustomerChangesNothing ==
    \A h \in StripeInvocations :
        ( /\ stripeApi.inv[h].req.action = "webhook"
          /\ stripeApi.inv[h].pc = "patch"
          /\ stripeApi.profile.stripe_customer_id # stripeApi.inv[h].req.event.customer )
            => stripeApi'.profile = stripeApi.profile

\* C21 (as amended): a verified webhook event written to a known profile
\* leaves the tier the event determines: checkout.session.completed (with
\* user id and subscription id) tier 'pro' and status 'active';
\* customer.subscription.updated tier 'pro' iff the subscription status is
\* 'active' or 'trialing', else 'free'; customer.subscription.deleted tier
\* 'free', status 'canceled', subscription id, period and period end
\* cleared; invoice.payment_failed status 'past_due' and the tier as it was.
\* A subscription or invoice event whose customer the lookup does not find
\* changes no profile.
C21_TierTransitions == [][TierWritten /\ NotFoundChangesNothing]_vars

\* a deleted subscription written to the profile while an event for a
\* customer nobody has was acknowledged without a PATCH
C21_Witness ==
    /\ stripeApi.inv[1].req.event.type = "customer.subscription.deleted"
    /\ stripeApi.inv[1].verified
    /\ stripeApi.inv[1].status = 200
    /\ stripeApi.inv[1].updates # << >>
    /\ stripeApi.profile.tier = "free"
    /\ stripeApi.profile.subscription_status = "canceled"
    /\ stripeApi.profile.stripe_subscription_id = "null"
    /\ stripeApi.inv[2].req.event.customer = "cus_unknown"
    /\ stripeApi.inv[2].verified
    /\ stripeApi.inv[2].status = 200
    /\ stripeApi.inv[2].updates = << >>

\* C21 (as stated): the same transitions, and no event at all for a customer
\* that is on no profile changes a profile.
C21_UnknownCustomerNeverWrites == [][TierWritten /\ UnknownCustomerChangesNothing]_vars


\* a reply that is an object without an error field and with a food_id
FoundFoodId(reply) == reply.body = "object" /\ ~reply.error /\ reply.food_id

\* what the two-step protocol asks of one step of the handlers of the
\* revisions revs
TwoStep(revs) ==
    env.rev \in revs =>
        \A h \in Invocations :
            /\ \A reply \in Replies : StepOneReply(h, reply) =>
                  /\ pc'[h] = "await2" => FoundFoodId(reply)
                  /\ (~ReplyThrows(env.rev, reply) /\ ~FoundFoodId(reply)) =>
                        (pc'[h] = "done" /\ status'[h] = 404 /\ upstream'[h] = 1)
            /\ \A reply \in Replies : (StepTwoReply(h, reply) /\ status'[h] = 200) =>
                  (~ReplyThrows(env.rev, reply) /\ ~reply.error)
            /\ (pc[h] \notin { "idle", "done" } /\ status'[h] = 200) => pc[h] = "await2"
            /\ upstream'[h] <= 2

\* C22: in barcode.js and the first handler of part_000, food.get.v4 is
\* requested only after food.find_id_for_barcode returned a response
\* without an error field and with a food_id; when it returned anything
\* else the handler answers 404 after exactly one upstream call; a request
\* makes at most two upstream calls, and 200 is answered only after the
\* second call returned without an error field.
C22_TwoStepLookup == [][TwoStep({ "barcode", "p000a" })]_vars

----------------------------------------------------------------------------
(* What the signing routine was given, read back from the signature base   *)
(* string "METHOD&encoded-url&encoded-parameters" of a logged request.     *)

BaseStringParts(e) == Split(Entry(e).request.sig.baseString, "&")
SignedMethodOf(e) == BaseStringParts(e)[1]
SignedUrlOf(e) == PercentDecode(BaseStringParts(e)[2], FALSE)

\* the logged requests that were signed and dispatched
Dispatched == { e \in Logged : Entry(e).request.threw = "none" /\ Entry(e).request.sig.threw = "none" }

\* C23: in every revision, the HTTP method given to the signing routine is
\* the method of the request that is dispatched, and the URL that is signed
\* is the address the request is sent to, which carries no query string.
C23_SignedMethodIsTransmitted ==
    \A e \in Dispatched :
        /\ Len(BaseStringParts(e)) = 3
        /\ SignedMethodOf(e) = TransportMethod(e)
        /\ Entry(e).request.signedMethod = Str(TransportMethod(e))
        /\ SignedUrlOf(e) = Entry(e).request.url
        /\ Entry(e).request.signedUrl = Entry(e).request.url
        /\ ~Contains(Entry(e).request.url, "?")

\* two requests in flight at once, each signed and dispatched, in a
\* revision that posts a form body
C23_Witness ==
    /\ \A h \in Invocations : << h, 1 >> \in Dispatched
    /\ << 1, 2 >> \in Dispatched
    /\ Entry(<< 1, 1 >>).request.transport = "POST"

====
